---- MODULE Spec2Model ----
(***************************************************************************)
(* Model of the graph builder of the inflectional-hierarchy pipeline       *)
(* (src/src/graph_builder.py, src/src/utils.py).                           *)
(*                                                                         *)
(* Strings are sequences of one-character strings, so that slicing,        *)
(* concatenation and str.split are computed and not assumed.               *)
(***************************************************************************)
EXTENDS Integers, Sequences, FiniteSets, TLC

\* pc is the position of the run that is modelled; the other variables are
\* the locals of that run
VARIABLES pc,
          \* create_bipartite_graph
          df, lexeme_dict, indexed_dict, edges, B, persisted,
          \* generate_triphones
          input_str, triphones,
          \* detect_communities_multiresolution
          graph, resolutions, res_i, communities, lexeme_communities,
          \* calculate_hierarchy_coefficient
          lower_communities, upper_communities, verb_pairs, community_ratings,
          \* analyze_hierarchy and create_hierarchy_dataframe
          h_communities, h_resolutions, hierarchy_ratings, df_hierarchy,
          \* get_communities.py beside analyze_hierarchy
          new_comms, script_result, module_result,
          \* two runs of run_community_detection
          seed, run_graph, run_resolution, seed_arg, first_run, second_run,
          \* run_pipeline.py
          args, steps, languages, language_i, step_no, commands, results,
          exit_status,
          \* scripts/05_hierarchy_analysis.py
          data_types, analysis_of, data_type_i, written, status,
          \* make_graphs.py, find_consecutive_sets
          slots, caller_lst, cons_slots

graphVars == <<df, lexeme_dict, indexed_dict, edges, B, persisted>>
triVars == <<input_str, triphones>>
cdVars == <<graph, resolutions, res_i, communities, lexeme_communities>>
coefVars ==
    <<lower_communities, upper_communities, verb_pairs, community_ratings>>
repVars == <<h_communities, h_resolutions, hierarchy_ratings, df_hierarchy>>

eqVars == <<new_comms, script_result, module_result>>

\* the locals of the scripts
rerunVars == <<seed, run_graph, run_resolution, seed_arg, first_run, second_run>>
pipeVars ==
    <<args, steps, languages, language_i, step_no, commands, results, exit_status>>
step5Vars == <<data_types, analysis_of, data_type_i, written, status>>
consVars == <<slots, caller_lst, cons_slots>>
scriptVars == <<eqVars, rerunVars, pipeVars, step5Vars, consVars>>

vars == <<pc, graphVars, triVars, cdVars, coefVars, repVars, scriptVars>>

\* the locals of the runs a specification does not model stay unset
GraphIdle ==
    /\ df = <<>> /\ lexeme_dict = <<>> /\ indexed_dict = <<>>
    /\ edges = <<>> /\ B = <<>> /\ persisted = <<>>
TriIdle == input_str = <<>> /\ triphones = <<>>
CdIdle ==
    /\ graph = <<>> /\ resolutions = <<>> /\ res_i = 0
    /\ communities = <<>> /\ lexeme_communities = <<>>
CoefIdle ==
    /\ lower_communities = <<>> /\ upper_communities = <<>>
    /\ verb_pairs = <<>> /\ community_ratings = <<>>
RepIdle ==
    /\ h_communities = <<>> /\ h_resolutions = <<>>
    /\ hierarchy_ratings = <<>> /\ df_hierarchy = <<>>

EqIdle == new_comms = <<>> /\ script_result = <<>> /\ module_result = <<>>
RerunIdle ==
    /\ seed = 0 /\ run_graph = <<>> /\ run_resolution = 0
    /\ seed_arg = <<>> /\ first_run = <<>> /\ second_run = <<>>
PipeIdle ==
    /\ args = <<>> /\ steps = <<>> /\ languages = <<>> /\ language_i = 0
    /\ step_no = 0 /\ commands = <<>> /\ results = <<>> /\ exit_status = 0
Step5Idle ==
    /\ data_types = <<>> /\ analysis_of = <<>> /\ data_type_i = 0
    /\ written = <<>> /\ status = 0
ConsIdle == slots = <<>> /\ caller_lst = <<>> /\ cons_slots = <<>>
ScriptIdle == EqIdle /\ RerunIdle /\ PipeIdle /\ Step5Idle /\ ConsIdle

-----------------------------------------------------------------------------
(* Bounds of the input tables.                                             *)

\* number of exponent strings in one table, over all its cells
MaxTotalExps == 3

\* the lexeme identifiers of the table index, in row order
LexemeIds == << <<"l1">>, <<"l2">> >>

\* the exponent strings a cell may list: "a" (one triphone), "ab" (two
\* triphones), "-" (a triphone that holds the tag separator)
Exponents == { <<"a">>, <<"a", "b">>, <<"-">> }

\* column labels
ColStem == <<"s", "t", "e", "m">>
ColA == <<"A">>
ColB == <<"B">>
ColA_1 == <<"A", "_", "1">>
ColAdB == <<"A", "-", "B">>

\* the column layouts of the input tables (the stem column comes first)
ColumnLayouts == { <<ColStem, ColA, ColB>>,
                   <<ColStem, ColA, ColA_1>>,
                   <<ColStem, ColA, ColAdB>> }

-----------------------------------------------------------------------------
(* Generic helpers on sequences.                                           *)

Range(s) == { s[i] : i \in 1..Len(s) }

RECURSIVE Flatten(_)
Flatten(ss) == IF ss = <<>> THEN <<>> ELSE Head(ss) \o Flatten(Tail(ss))

SeqsUpTo(S, n) == UNION { [1..k -> S] : k \in 0..n }

\* subsequences of s that keep its order
RECURSIVE SubSequences(_)
SubSequences(s) ==
    IF s = <<>> THEN { <<>> }
    ELSE LET rest == SubSequences(Tail(s))
         IN rest \cup { <<Head(s)>> \o r : r \in rest }

\* index of the first occurrence of ch in s, 0 when there is none
FirstIndex(s, ch) ==
    IF \E i \in 1..Len(s) : s[i] = ch
    THEN CHOOSE i \in 1..Len(s) : s[i] = ch /\ \A j \in 1..(i-1) : s[j] # ch
    ELSE 0

\* python str.split(sep) for a one-character separator
RECURSIVE Split(_, _)
Split(s, sep) ==
    LET i == FirstIndex(s, sep)
    IN IF i = 0 THEN <<s>>
       ELSE <<SubSeq(s, 1, i-1)>> \o Split(SubSeq(s, i+1, Len(s)), sep)

Digit(d) == <<"0", "1", "2", "3", "4", "5", "6", "7", "8", "9">>[d + 1]

\* python str(n) of a natural number
RECURSIVE Str(_)
Str(n) == IF n < 10 THEN <<Digit(n)>> ELSE Str(n \div 10) \o <<Digit(n % 10)>>

-----------------------------------------------------------------------------
(* Cell values of a FormativesTable.                                       *)

NaN == [kind |-> "nan", val |-> <<>>]
ListCell(l) == [kind |-> "list", val |-> l]
StrCell(s) == [kind |-> "str", val |-> s]

\* what iterating the cell yields ("for exponent in cell"): the elements of
\* a list, the characters of a str
CellItems(cell) ==
    IF cell.kind = "list" THEN cell.val
    ELSE [i \in 1..Len(cell.val) |-> <<cell.val[i]>>]

StemValue == StrCell(<<"a", "b">>)

\* Sum of the list lengths lens[1..n]; -1 stands for a nan cell
RECURSIVE TotalLen(_, _)
TotalLen(lens, n) ==
    IF n = 0 THEN 0
    ELSE TotalLen(lens, n - 1) + (IF lens[n] < 0 THEN 0 ELSE lens[n])

\* the table whose k-th cell (row after row, column after column, the stem
\* column aside) is nan when lens[k] = -1 and else the next lens[k] strings
\* of pool
MakeTable(idx, cols, lens, pool) ==
    LET others == SelectSeq(cols, LAMBDA c : c # ColStem)
        slot(i, j) == (i - 1) * Len(others) + j
        cellAt(k) == IF lens[k] < 0 THEN NaN
                     ELSE ListCell(SubSeq(pool, TotalLen(lens, k - 1) + 1,
                                          TotalLen(lens, k)))
        pos(s, x) == CHOOSE i \in 1..Len(s) : s[i] = x
    IN [index |-> idx,
        columns |-> cols,
        cells |-> [l \in Range(idx) |->
                     [col \in Range(cols) |->
                        IF col = ColStem THEN StemValue
                        ELSE cellAt(slot(pos(idx, l), pos(others, col)))]]]

\* the FormativesTables of the model: an index of distinct lexeme ids, a
\* column layout, and in every cell nan or a list of exponent strings, with
\* at most MaxTotalExps strings in the whole table
IsTable(d) ==
    \E idx \in SubSequences(LexemeIds), cols \in ColumnLayouts :
        LET n == Len(idx) * (Len(cols) - 1)
        IN \E lens \in [1..n -> -1..MaxTotalExps] :
              /\ TotalLen(lens, n) <= MaxTotalExps
              /\ \E pool \in [1..TotalLen(lens, n) -> Exponents] :
                    d = MakeTable(idx, cols, lens, pool)

-----------------------------------------------------------------------------
(* src/src/utils.py                                                        *)

\* the function without its branch for a padded string of at most 3 characters
generate_triphones_NoShortCase(e) ==
    LET newstring == <<"#">> \o e \o <<"#">>
    IN [i \in 1..(Len(newstring) - 2) |-> SubSeq(newstring, i, i + 2)]

generate_triphones(e) ==
    LET newstring == <<"#">> \o e \o <<"#">>
    IN IF Len(newstring) <= 3 THEN <<newstring>>
       ELSE [i \in 1..(Len(newstring) - 2) |-> SubSeq(newstring, i, i + 2)]

\* called with a list of triphones: every element gets "-" + column_name
process_cell(cell, column_name) ==
    [i \in 1..Len(cell) |-> cell[i] \o <<"-">> \o column_name]

-----------------------------------------------------------------------------
(* src/src/graph_builder.py: build_lexeme_dict                             *)

\* df.drop(columns=["stem", "STEM"], errors='ignore')
DropStem(cols) ==
    SelectSeq(cols, LAMBDA c : c # <<"s", "t", "e", "m">> /\ c # <<"S", "T", "E", "M">>)

\* str(cell) == 'nan'
IsNanStr(cell) ==
    \/ cell.kind = "nan"
    \/ cell.kind = "str" /\ cell.val = <<"n", "a", "n">>

\* [x for exponent in cell for x in generate_triphones(exponent)]
CellTriphones(cell) ==
    LET items == CellItems(cell)
    IN Flatten([i \in 1..Len(items) |-> generate_triphones(items[i])])

\* the tagged triphones one row contributes, column after column
RECURSIVE RowTags(_, _)
RowTags(row, cols) ==
    IF cols = <<>> THEN <<>>
    ELSE LET col == Head(cols)
             cell == row[col]
         IN (IF IsNanStr(cell) THEN <<>>
             ELSE process_cell(CellTriphones(cell), col))
            \o RowTags(row, Tail(cols))

\* the column each of those tagged triphones came from, in the same order
RECURSIVE RowOrigins(_, _)
RowOrigins(row, cols) ==
    IF cols = <<>> THEN <<>>
    ELSE LET col == Head(cols)
             cell == row[col]
         IN (IF IsNanStr(cell) THEN <<>>
             ELSE [i \in 1..Len(CellTriphones(cell)) |-> col])
            \o RowOrigins(row, Tail(cols))

\* a row gets a key as soon as one of its cells is not nan (an empty list
\* still creates the key: lexeme_dict[idx] += [])
HasKey(row, cols) == \E i \in 1..Len(cols) : ~IsNanStr(row[cols[i]])

build_lexeme_dict(d) ==
    LET cols == DropStem(d.columns)
        keys == { l \in Range(d.index) : HasKey(d.cells[l], cols) }
    IN [l \in keys |-> RowTags(d.cells[l], cols)]

-----------------------------------------------------------------------------
(* src/src/graph_builder.py: index_duplicate_exponents                     *)

\* the keys of a per-lexeme dict in insertion order, which is row order
KeyOrder(dict) == SelectSeq(LexemeIds, LAMBDA l : l \in DOMAIN dict)

\* seen = defaultdict(int): a tag that is no key yet counts 0
SeenCount(seen, exp) == IF exp \in DOMAIN seen THEN seen[exp] ELSE 0

\* the loop with the ordinal taken from seen[exp] instead of seen[exp] - 1
RECURSIVE IndexLoop_OrdinalFromCount(_, _)
IndexLoop_OrdinalFromCount(exps_list, seen) ==
    IF exps_list = <<>> THEN <<>>
    ELSE LET exp == Head(exps_list)
             n == SeenCount(seen, exp) + 1
             seen2 == [e \in DOMAIN seen \cup {exp} |-> IF e = exp THEN n ELSE seen[e]]
         IN <<IF n > 1 THEN exp \o <<"_">> \o Str(n) ELSE exp>>
            \o IndexLoop_OrdinalFromCount(Tail(exps_list), seen2)

\* the loop over exps_list, with the dict seen so far
RECURSIVE IndexLoop(_, _)
IndexLoop(exps_list, seen) ==
    IF exps_list = <<>> THEN <<>>
    ELSE LET exp == Head(exps_list)
             n == SeenCount(seen, exp) + 1
             seen2 == [e \in DOMAIN seen \cup {exp} |-> IF e = exp THEN n ELSE seen[e]]
         IN <<IF n > 1 THEN exp \o <<"_">> \o Str(n - 1) ELSE exp>>
            \o IndexLoop(Tail(exps_list), seen2)

index_exps(exps_list) == IndexLoop(exps_list, <<>>)

index_duplicate_exponents(ld) == [l \in DOMAIN ld |-> index_exps(ld[l])]

-----------------------------------------------------------------------------
(* src/src/graph_builder.py: calculate_edge_weights                        *)

NanCount == [kind |-> "nan", n |-> 0]
NumCount(k) == [kind |-> "num", n |-> k]

\* the length taken as the number of distinct strings of the list
CellLength_Distinct(cell) ==
    IF cell.kind = "list" THEN NumCount(Cardinality(Range(cell.val))) ELSE NanCount

\* the length taken as the number of triphones of the cell
CellLength_Triphones(cell) ==
    IF cell.kind = "list" THEN NumCount(Len(CellTriphones(cell))) ELSE NanCount

\* the "length" column: len(value) for a list, NaN otherwise
CellLength(cell) == IF cell.kind = "list" THEN NumCount(Len(cell.val)) ELSE NanCount

\* pd.pivot_table(...).to_dict(orient="index"): the (lexeme, column) pairs
\* without a length are dropped before the table is spread, so a lexeme or a
\* column that has no length at all is no key, and the holes left in the
\* spread table read NaN
weights_dict(d) ==
    LET cols == Range(DropStem(d.columns))
        has(l, c) == CellLength(d.cells[l][c]).kind = "num"
        rows == { l \in Range(d.index) : \E c \in cols : has(l, c) }
        kept == { c \in cols : \E l \in Range(d.index) : has(l, c) }
    IN [l \in rows |-> [c \in kept |-> CellLength(d.cells[l][c])]]

\* dict_to_tuple_list: [key, value] for every value, key after key
RECURSIVE EdgeListOf(_, _)
EdgeListOf(dict, keys) ==
    IF keys = <<>> THEN <<>>
    ELSE LET l == Head(keys)
         IN [i \in 1..Len(dict[l]) |-> <<l, dict[l][i]>>] \o EdgeListOf(dict, Tail(keys))

dict_to_tuple_list(dict) == EdgeListOf(dict, KeyOrder(dict))

\* cell = lst[1].split("-")[1]; if "_" in cell: cell = cell.split("_")[0]
RecoverCell(tag) ==
    LET cell == Split(tag, "-")[2]
    IN IF "_" \in Range(cell) THEN Split(cell, "_")[1] ELSE cell

NanWeight == [kind |-> "nan", den |-> 0]
Ratio(k) == [kind |-> "ratio", den |-> k]

\* the lookup written with a default (dict.get) and a guarded division
WeightOf_Default(wd, lst) ==
    LET cell == RecoverCell(lst[2])
    IN IF lst[1] \notin DOMAIN wd \/ cell \notin DOMAIN wd[lst[1]]
       THEN [raised |-> "none", weight |-> Ratio(1)]
       ELSE LET count == wd[lst[1]][cell]
            IN IF count.kind = "nan" \/ count.n = 0
               THEN [raised |-> "none", weight |-> NanWeight]
               ELSE [raised |-> "none", weight |-> Ratio(count.n)]

\* weight = 1 / weights_dict[lst[0]][cell]: what the statement does for one
\* edge: a KeyError, a ZeroDivisionError, or a float (1/NaN is NaN)
WeightOf(wd, lst) ==
    LET cell == RecoverCell(lst[2])
    IN IF lst[1] \notin DOMAIN wd \/ cell \notin DOMAIN wd[lst[1]]
       THEN [raised |-> "KeyError", weight |-> NanWeight]
       ELSE LET count == wd[lst[1]][cell]
            IN IF count.kind = "nan" THEN [raised |-> "none", weight |-> NanWeight]
               ELSE IF count.n = 0
               THEN [raised |-> "ZeroDivisionError", weight |-> NanWeight]
               ELSE [raised |-> "none", weight |-> Ratio(count.n)]

\* the loop over the edges: it stops at the first edge that raises
RECURSIVE WeightLoop(_, _)
WeightLoop(wd, edgelist) ==
    IF edgelist = <<>> THEN [raised |-> "none", edges |-> <<>>]
    ELSE LET lst == Head(edgelist)
             w == WeightOf(wd, lst)
         IN IF w.raised # "none" THEN [raised |-> w.raised, edges |-> <<>>]
            ELSE LET rest == WeightLoop(wd, Tail(edgelist))
                 IN IF rest.raised # "none" THEN rest
                    ELSE [raised |-> "none",
                          edges |-> <<Append(lst, w.weight)>> \o rest.edges]

calculate_edge_weights(d, idict) == WeightLoop(weights_dict(d), dict_to_tuple_list(idict))

-----------------------------------------------------------------------------
(* src/src/graph_builder.py: create_bipartite_graph                        *)

EmptyGraph == [nodes |-> <<>>, adj |-> <<>>]

\* both node lists added with bipartite=0
AddNodes_OneTag(lexemes, exponents) == [n \in lexemes \cup exponents |-> 0]

\* B.add_nodes_from(lexemes, bipartite=0); B.add_nodes_from(exponents,
\* bipartite=1): a node added twice keeps the attribute written last
AddNodes(lexemes, exponents) ==
    [n \in lexemes \cup exponents |-> IF n \in exponents THEN 1 ELSE 0]

\* the edges kept in a dict keyed by the exponent alone: of the lexemes that
\* share an exponent only the last keeps its edge
AddEdges_PerExponent(edgelist) ==
    LET tags == { edgelist[i][2] : i \in 1..Len(edgelist) }
        last(t) == CHOOSE i \in 1..Len(edgelist) :
                      /\ edgelist[i][2] = t
                      /\ \A j \in (i+1)..Len(edgelist) : edgelist[j][2] # t
    IN [k \in { {edgelist[last(t)][1], t} : t \in tags } |->
          LET t == CHOOSE x \in tags : x \in k IN edgelist[last(t)][3]]

\* B.add_edge(lst[0], lst[1], weight=lst[2]) for every edge in turn: the graph
\* is undirected and simple, so an edge is keyed by its set of endpoints and a
\* repeated pair keeps the weight written last
AddEdges(edgelist) ==
    LET keys == { {edgelist[i][1], edgelist[i][2]} : i \in 1..Len(edgelist) }
        last(k) == CHOOSE i \in 1..Len(edgelist) :
                      /\ {edgelist[i][1], edgelist[i][2]} = k
                      /\ \A j \in (i+1)..Len(edgelist) :
                            {edgelist[j][1], edgelist[j][2]} # k
    IN [k \in keys |-> edgelist[last(k)][3]]

BuildGraph(idict, edgelist) ==
    LET lexemes == DOMAIN idict
        exponents == UNION { Range(idict[l]) : l \in DOMAIN idict }
    IN [nodes |-> AddNodes(lexemes, exponents), adj |-> AddEdges(edgelist)]

-----------------------------------------------------------------------------
(* The run of create_bipartite_graph on one table.                         *)

NotSaved == [saved |-> FALSE, graph |-> EmptyGraph]

Init ==
    /\ IsTable(df)
    /\ pc = "start"
    /\ lexeme_dict = <<>>
    /\ indexed_dict = <<>>
    /\ edges = <<>>
    /\ B = EmptyGraph
    /\ persisted = NotSaved
    /\ TriIdle /\ CdIdle /\ CoefIdle /\ RepIdle
    /\ ScriptIdle

\* lexeme_dict = build_lexeme_dict(df)
BuildLexemeDict ==
    /\ pc = "start"
    /\ lexeme_dict' = build_lexeme_dict(df)
    /\ pc' = "built"
    /\ UNCHANGED <<df, indexed_dict, edges, B, persisted>>
    /\ UNCHANGED <<triVars, cdVars, coefVars, repVars>>
    /\ UNCHANGED scriptVars

\* indexed_dict = index_duplicate_exponents(lexeme_dict)
IndexDuplicates ==
    /\ pc = "built"
    /\ indexed_dict' = index_duplicate_exponents(lexeme_dict)
    /\ pc' = "indexed"
    /\ UNCHANGED <<df, lexeme_dict, edges, B, persisted>>
    /\ UNCHANGED <<triVars, cdVars, coefVars, repVars>>
    /\ UNCHANGED scriptVars

\* edges = calculate_edge_weights(df, indexed_dict), no exception raised
CalculateEdgeWeights ==
    /\ pc = "indexed"
    /\ LET r == calculate_edge_weights(df, indexed_dict)
       IN /\ r.raised = "none"
          /\ edges' = r.edges
    /\ pc' = "weighted"
    /\ UNCHANGED <<df, lexeme_dict, indexed_dict, B, persisted>>
    /\ UNCHANGED <<triVars, cdVars, coefVars, repVars>>
    /\ UNCHANGED scriptVars

\* the except clause logs and re-raises: the call ends with the exception
CalculateEdgeWeightsRaises ==
    /\ pc = "indexed"
    /\ calculate_edge_weights(df, indexed_dict).raised # "none"
    /\ pc' = "raised"
    /\ UNCHANGED <<df, lexeme_dict, indexed_dict, edges, B, persisted>>
    /\ UNCHANGED <<triVars, cdVars, coefVars, repVars>>
    /\ UNCHANGED scriptVars

\* the nodes and edges are added, the graph is pickled and returned
CreateGraph ==
    /\ pc = "weighted"
    /\ B' = BuildGraph(indexed_dict, edges)
    /\ persisted' = [saved |-> TRUE, graph |-> B']
    /\ pc' = "returned"
    /\ UNCHANGED <<df, lexeme_dict, indexed_dict, edges>>
    /\ UNCHANGED <<triVars, cdVars, coefVars, repVars>>
    /\ UNCHANGED scriptVars

Next ==
    \/ BuildLexemeDict
    \/ IndexDuplicates
    \/ CalculateEdgeWeights
    \/ CalculateEdgeWeightsRaises
    \/ CreateGraph

Spec == Init /\ [][Next]_vars

-----------------------------------------------------------------------------
(* Vocabulary of the properties.                                           *)

Indexed == pc \in {"indexed", "weighted", "raised", "returned"}
Returned == pc = "returned"

LexemeNodes(G) == { n \in DOMAIN G.nodes : G.nodes[n] = 0 }
ExponentNodes(G) == { n \in DOMAIN G.nodes : G.nodes[n] = 1 }

\* the grammatical-cell columns of the table
CellColumns == SelectSeq(df.columns, LAMBDA c : c # ColStem)

\* the column each candidate of lexeme l came from, by position
Origins(l) == RowOrigins(df.cells[l], CellColumns)

\* the positions of lexeme l's candidate sequence that come from column c
PositionsOf(l, c) == { i \in 1..Len(Origins(l)) : Origins(l)[i] = c }

\* neither the tag separator nor the ordinal separator occurs in a cell
\* label, and no exponent string holds the tag separator
PlainInput ==
    /\ \A c \in Range(CellColumns) : "-" \notin Range(c) /\ "_" \notin Range(c)
    /\ \A l \in Range(df.index), c \in Range(CellColumns) :
          df.cells[l][c].kind = "list" =>
             \A k \in 1..Len(df.cells[l][c].val) : "-" \notin Range(df.cells[l][c].val[k])

HasDuplicates(s) == \E i, j \in 1..Len(s) : i # j /\ s[i] = s[j]

\* s occurs in t as a contiguous run
IsInfix(s, t) == \E i \in 0..(Len(t) - Len(s)) : SubSeq(t, i + 1, i + Len(s)) = s

-----------------------------------------------------------------------------
-----------------------------------------------------------------------------
(* C2 as stated: every edge built from a triphone of cell c of lexeme l has *)
(* weight 1 / (number of distinct exponent strings of (l, c)).              *)
C2_DistinctCount ==
    Returned =>
       \A l \in DOMAIN indexed_dict : \A i \in 1..Len(indexed_dict[l]) :
          B.adj[{l, indexed_dict[l][i]}]
             = Ratio(Cardinality(Range(df.cells[l][Origins(l)[i]].val)))

(* C2 amended: when no cell label holds '-' or '_' and no exponent holds    *)
(* '-', every edge built from a triphone of cell c of lexeme l has weight   *)
(* 1 / (length of the exponent list of (l, c)), repeated strings counted.   *)
C2_ListLength ==
    (Returned /\ PlainInput) =>
       \A l \in DOMAIN indexed_dict : \A i \in 1..Len(indexed_dict[l]) :
          B.adj[{l, indexed_dict[l][i]}]
             = Ratio(Len(df.cells[l][Origins(l)[i]].val))

\* a plain table with a repeated exponent string in one cell, built
C2_Witness ==
    /\ Returned /\ PlainInput
    /\ \E l \in Range(df.index), c \in Range(CellColumns) :
          /\ df.cells[l][c].kind = "list"
          /\ HasDuplicates(df.cells[l][c].val)
          /\ \E i \in PositionsOf(l, c) : B.adj[{l, indexed_dict[l][i]}] = Ratio(2)

-----------------------------------------------------------------------------
(* C3: every edge weight of a returned graph is a finite real w with        *)
(* 0 < w <= 1, whatever the cell labels and exponent strings.               *)
C3_WeightRange ==
    Returned =>
       \A e \in DOMAIN B.adj : B.adj[e].kind = "ratio" /\ B.adj[e].den >= 1

-----------------------------------------------------------------------------
(* C4: the list index_duplicate_exponents produces for a lexeme holds no    *)
(* string twice, whatever tags the candidate sequence holds.                *)
C4_NoDuplicates ==
    Indexed => \A l \in DOMAIN indexed_dict : ~HasDuplicates(indexed_dict[l])

-----------------------------------------------------------------------------
(* C5: index_duplicate_exponents keeps length and order; the first          *)
(* occurrence of a tag stays bare and its n-th occurrence (n >= 2) becomes  *)
(* tag + '_' + str(n-1); cutting the appended suffix gives the tag back.    *)
OccurrenceNo(s, i) == Cardinality({ j \in 1..i : s[j] = s[i] })

C5_Ordinals ==
    Indexed =>
       /\ DOMAIN indexed_dict = DOMAIN lexeme_dict
       /\ \A l \in DOMAIN lexeme_dict :
             LET cand == lexeme_dict[l]
                 out == indexed_dict[l]
             IN /\ Len(out) = Len(cand)
                /\ \A i \in 1..Len(cand) :
                      /\ SubSeq(out[i], 1, Len(cand[i])) = cand[i]
                      /\ OccurrenceNo(cand, i) = 1 => out[i] = cand[i]
                      /\ OccurrenceNo(cand, i) >= 2 =>
                            SubSeq(out[i], Len(cand[i]) + 1, Len(out[i]))
                               = <<"_">> \o Str(OccurrenceNo(cand, i) - 1)

\* a lexeme whose candidate sequence holds one tag three times
C5_Witness ==
    /\ Indexed
    /\ \E l \in DOMAIN lexeme_dict : \E i \in 1..Len(lexeme_dict[l]) :
          /\ OccurrenceNo(lexeme_dict[l], i) = 3
          /\ indexed_dict[l][i] = lexeme_dict[l][i] \o <<"_", "2">>

-----------------------------------------------------------------------------
(* C6: every lexeme id of the table, also one whose every cell is nan, is a *)
(* lexeme node of the returned graph.                                       *)
C6_EveryLexemeIsNode ==
    Returned => LexemeNodes(B) = Range(df.index)

-----------------------------------------------------------------------------
(* C7: the exponent nodes of the returned graph are exactly the             *)
(* disambiguated tags of all lexemes (a tag of two lexemes is one node),    *)
(* the edges are exactly the (lexeme, disambiguated tag) pairs, and no node *)
(* comes from the stem column. Two lexemes with A = [a] and nothing else    *)
(* give 2 lexeme nodes, 1 exponent node and 2 edges of weight 1.            *)
ScenarioA ==
    /\ df.index = LexemeIds
    /\ \A l \in Range(df.index) :
          /\ df.cells[l][ColA] = ListCell(<< <<"a">> >>)
          /\ \A c \in Range(CellColumns) \ {ColA} : df.cells[l][c] = NaN

TagA == <<"#", "a", "#", "-", "A">>

C7_NodesAndEdges ==
    Returned =>
       /\ ExponentNodes(B) = UNION { Range(indexed_dict[l]) : l \in DOMAIN indexed_dict }
       /\ DOMAIN B.adj = UNION { { {l, t} : t \in Range(indexed_dict[l]) } :
                                 l \in DOMAIN indexed_dict }
       /\ \A n \in ExponentNodes(B) : ~IsInfix(ColStem, n)
       /\ ScenarioA =>
             /\ LexemeNodes(B) = Range(LexemeIds)
             /\ ExponentNodes(B) = {TagA}
             /\ B.adj = [e \in { {l, TagA} : l \in Range(LexemeIds) } |-> Ratio(1)]

C7_Witness == Returned /\ ScenarioA /\ Cardinality(DOMAIN B.adj) = 2

-----------------------------------------------------------------------------
(* C8: the cell label calculate_edge_weights recovers from a disambiguated  *)
(* tag is the column the triphone came from, for every triphone and label.  *)
C8_RecoveredCell ==
    Indexed =>
       \A l \in DOMAIN indexed_dict : \A i \in 1..Len(indexed_dict[l]) :
          RecoverCell(indexed_dict[l][i]) = Origins(l)[i]

-----------------------------------------------------------------------------
(* C9: when the weight lookup of some edge names a (lexeme, cell) pair that *)
(* is no key of the count map, or finds the count 0, the build ends with    *)
(* an exception: no graph is built, returned or saved, and no weight stands *)
(* in for the missing one.                                                  *)
LookupFails(l, tag) ==
    LET wd == weights_dict(df)
        cell == RecoverCell(tag)
    IN \/ l \notin DOMAIN wd
       \/ cell \notin DOMAIN wd[l]
       \/ wd[l][cell] = NumCount(0)

SomeLookupFails ==
    \E l \in DOMAIN indexed_dict : \E i \in 1..Len(indexed_dict[l]) :
       LookupFails(l, indexed_dict[l][i])

C9_AbortOnMissingCount ==
    /\ (pc \in {"weighted", "returned"}) => ~SomeLookupFails
    /\ (pc = "raised") => (edges = <<>> /\ B = EmptyGraph /\ persisted = NotSaved)
    /\ (Indexed /\ pc # "indexed" /\ SomeLookupFails) => pc = "raised"

\* the build has ended on a count of 0
C9_Witness ==
    /\ pc = "raised"
    /\ \E l \in DOMAIN indexed_dict : \E i \in 1..Len(indexed_dict[l]) :
          LET cell == RecoverCell(indexed_dict[l][i])
          IN /\ l \in DOMAIN weights_dict(df)
             /\ cell \in DOMAIN weights_dict(df)[l]
             /\ weights_dict(df)[l][cell] = NumCount(0)

-----------------------------------------------------------------------------
(* C10 as stated: the weights of the edges generated from one cell sum to   *)
(* 1, each of the cell's k edges weighing 1/k.                              *)
EdgesOf(l, c) == { indexed_dict[l][i] : i \in PositionsOf(l, c) }

C10_UnitPerCell ==
    Returned =>
       \A l \in DOMAIN indexed_dict, c \in Range(CellColumns) :
          EdgesOf(l, c) # {} =>
             \A t \in EdgesOf(l, c) :
                B.adj[{l, t}] = Ratio(Cardinality(EdgesOf(l, c)))

\* number of triphones of an exponent string: one for a string of at most
\* one character, else as many as it has characters
TriphoneCount(e) == IF Len(e) <= 1 THEN 1 ELSE Len(e)

RECURSIVE SumTriphoneCounts(_)
SumTriphoneCounts(es) ==
    IF es = <<>> THEN 0 ELSE TriphoneCount(Head(es)) + SumTriphoneCounts(Tail(es))

(* C10 amended: when no cell label holds '-' or '_' and no exponent holds   *)
(* '-', a cell listing k exponent strings that yield m triphones in all     *)
(* gives m edges of weight 1/k each, so its edges sum to m/k: at least 1,   *)
(* and 1 exactly when every exponent of the cell yields one triphone.       *)
C10_TriphonesOverExponents ==
    (Returned /\ PlainInput) =>
       \A l \in DOMAIN indexed_dict, c \in Range(CellColumns) :
          (df.cells[l][c].kind = "list" /\ df.cells[l][c].val # <<>>) =>
             LET k == Len(df.cells[l][c].val)
                 m == SumTriphoneCounts(df.cells[l][c].val)
             IN /\ Cardinality(EdgesOf(l, c)) = m
                /\ \A t \in EdgesOf(l, c) : B.adj[{l, t}] = Ratio(k)
                /\ m >= k

\* one exponent of two triphones: two edges of weight 1 from one cell
C10_Witness ==
    /\ Returned /\ PlainInput
    /\ \E l \in DOMAIN indexed_dict, c \in Range(CellColumns) :
          /\ df.cells[l][c] = ListCell(<< <<"a", "b">> >>)
          /\ Cardinality(EdgesOf(l, c)) = 2
          /\ \A t \in EdgesOf(l, c) : B.adj[{l, t}] = Ratio(1)

-----------------------------------------------------------------------------
(* The call generate_triphones(input_str) on one string.                   *)

\* longest input string
MaxStrLen == 4

\* the characters of the input strings; the boundary marker is one of them
TriChars == {"a", "b", "#"}

TriInit ==
    /\ \E n \in 0..MaxStrLen : input_str \in [1..n -> TriChars]
    /\ triphones = <<>>
    /\ pc = "tri_call"
    /\ GraphIdle /\ CdIdle /\ CoefIdle /\ RepIdle
    /\ ScriptIdle

GenerateTriphones ==
    /\ pc = "tri_call"
    /\ triphones' = generate_triphones(input_str)
    /\ pc' = "tri_returned"
    /\ UNCHANGED <<input_str, graphVars, cdVars, coefVars, repVars>>
    /\ UNCHANGED scriptVars

TriNext == GenerateTriphones

SpecTriphones == TriInit /\ [][TriNext]_vars

(* C11: generate_triphones(e) pads e with one '#' on each side; a padded    *)
(* string of length L <= 3 is returned whole as the only element ('' gives  *)
(* ['##']); otherwise the result has L-2 elements, the i-th being the three *)
(* characters of the padded string from position i, left to right.          *)
Padded == <<"#">> \o input_str \o <<"#">>

C11_Triphones ==
    pc = "tri_returned" =>
       /\ Head(Padded) = "#" /\ Padded[Len(Padded)] = "#"
       /\ Len(Padded) = Len(input_str) + 2
       /\ \A i \in 1..Len(input_str) : Padded[i + 1] = input_str[i]
       /\ Len(Padded) <= 3 => triphones = <<Padded>>
       /\ input_str = <<>> => triphones = << <<"#", "#">> >>
       /\ Len(Padded) > 3 =>
             /\ Len(triphones) = Len(Padded) - 2
             /\ \A i \in 1..Len(triphones) :
                   triphones[i] = <<Padded[i], Padded[i + 1], Padded[i + 2]>>

\* a call on a string of the greatest length has returned one window per character
C11_Witness ==
    /\ pc = "tri_returned"
    /\ Len(input_str) = MaxStrLen
    /\ Len(triphones) = MaxStrLen

-----------------------------------------------------------------------------
(* detect_communities_multiresolution(graph, resolutions): one Louvain run  *)
(* per resolution on the whole graph, then the projection of every          *)
(* community onto the lexeme nodes.                                         *)

\* longest resolution sweep
MaxResolutions == 2

\* resolution values, in tenths (0.0 and 1.0)
ResValues == {0, 10}

\* node names of the graphs
NodeNames == {"n1", "n2", "n3"}

\* a graph is its node set with the bipartite attribute of every node; the
\* edges only steer the clustering, which is taken as any partition
Graphs ==
    UNION { { [nodes |-> N, bipartite |-> b] : b \in [N -> {0, 1}] } :
            N \in SUBSET NodeNames }

\* {n for n, d in graph.nodes(data=True) if d["bipartite"] == 0}
LexemesOf(g) == { n \in g.nodes : g.bipartite[n] = 0 }

\* what nx.community.louvain_communities may return: a list of non-empty,
\* pairwise disjoint sets that cover the nodes, in any order
louvain_communities(g) ==
    { p \in SeqsUpTo(SUBSET g.nodes \ {{}}, Cardinality(g.nodes)) :
        /\ UNION Range(p) = g.nodes
        /\ \A i, j \in 1..Len(p) : i # j => p[i] \cap p[j] = {} }

\* the comprehension without its filter "if s & lexemes"
ProjectOnLexemes_KeepEmpty(comms, lexemes) ==
    [i \in 1..Len(comms) |-> comms[i] \cap lexemes]

\* the comprehension without the intersection of the kept sets
ProjectOnLexemes_WholeSets(comms, lexemes) ==
    SelectSeq(comms, LAMBDA c : c \cap lexemes # {})

\* the comprehension keeping only the sets made of lexemes alone
ProjectOnLexemes_PureOnly(comms, lexemes) ==
    SelectSeq(comms, LAMBDA c : c # {} /\ c \subseteq lexemes)

\* [s & lexemes for s in communities[res] if s & lexemes]
RECURSIVE ProjectOnLexemes(_, _)
ProjectOnLexemes(comms, lexemes) ==
    IF comms = <<>> THEN <<>>
    ELSE LET s == Head(comms)
             rest == ProjectOnLexemes(Tail(comms), lexemes)
         IN IF s \cap lexemes # {} THEN <<s \cap lexemes>> \o rest ELSE rest

\* d[key] = value on a dict
SetItem(d, key, value) ==
    [k \in DOMAIN d \cup {key} |-> IF k = key THEN value ELSE d[k]]

DetectInit ==
    /\ graph \in Graphs
    /\ resolutions \in SeqsUpTo(ResValues, MaxResolutions)
    /\ res_i = 1
    /\ communities = <<>>
    /\ lexeme_communities = <<>>
    /\ pc = "cd_louvain"
    /\ GraphIdle /\ TriIdle /\ CoefIdle /\ RepIdle
    /\ ScriptIdle

\* one pass of "for res in tqdm(resolutions)"
RunLouvain ==
    /\ pc = "cd_louvain"
    /\ res_i <= Len(resolutions)
    /\ \E p \in louvain_communities(graph) :
          communities' = SetItem(communities, resolutions[res_i], p)
    /\ res_i' = res_i + 1
    /\ UNCHANGED <<pc, graph, resolutions, lexeme_communities>>
    /\ UNCHANGED <<graphVars, triVars, coefVars, repVars>>
    /\ UNCHANGED scriptVars

\* the first loop is over; the second starts
LouvainDone ==
    /\ pc = "cd_louvain"
    /\ res_i > Len(resolutions)
    /\ res_i' = 1
    /\ pc' = "cd_project"
    /\ UNCHANGED <<graph, resolutions, communities, lexeme_communities>>
    /\ UNCHANGED <<graphVars, triVars, coefVars, repVars>>
    /\ UNCHANGED scriptVars

\* one pass of "for res in resolutions"
ProjectCommunities ==
    /\ pc = "cd_project"
    /\ res_i <= Len(resolutions)
    /\ lexeme_communities' =
          SetItem(lexeme_communities, resolutions[res_i],
                  ProjectOnLexemes(communities[resolutions[res_i]],
                                   LexemesOf(graph)))
    /\ res_i' = res_i + 1
    /\ UNCHANGED <<pc, graph, resolutions, communities>>
    /\ UNCHANGED <<graphVars, triVars, coefVars, repVars>>
    /\ UNCHANGED scriptVars

\* return lexeme_communities
DetectReturn ==
    /\ pc = "cd_project"
    /\ res_i > Len(resolutions)
    /\ pc' = "cd_returned"
    /\ UNCHANGED cdVars
    /\ UNCHANGED <<graphVars, triVars, coefVars, repVars>>
    /\ UNCHANGED scriptVars

DetectNext == RunLouvain \/ LouvainDone \/ ProjectCommunities \/ DetectReturn

SpecDetect == DetectInit /\ [][DetectNext]_vars

DetectReturned == pc = "cd_returned"

(* C12: when every clustering run returned a partition of all graph nodes,  *)
(* the list returned for every resolution holds only non-empty, pairwise    *)
(* disjoint sets of lexeme nodes.                                           *)
C12_LexemePartition ==
    DetectReturned =>
       /\ DOMAIN lexeme_communities = Range(resolutions)
       /\ \A res \in DOMAIN lexeme_communities :
             LET lc == lexeme_communities[res]
             IN /\ \A i \in 1..Len(lc) :
                      lc[i] # {} /\ lc[i] \subseteq LexemesOf(graph)
                /\ \A i, j \in 1..Len(lc) : i # j => lc[i] \cap lc[j] = {}

\* a run has returned two lexeme communities for a resolution whose
\* clustering also held a community without any lexeme
C12_Witness ==
    /\ DetectReturned
    /\ \E res \in DOMAIN lexeme_communities :
          /\ Len(lexeme_communities[res]) = 2
          /\ \E i \in 1..Len(communities[res]) :
                communities[res][i] \cap LexemesOf(graph) = {}

\* positions of the clustering output that hold at least one lexeme
KeptPositions(comms, lexemes) ==
    { i \in 1..Len(comms) : comms[i] \cap lexemes # {} }

\* the k-th smallest element of a set of positions
KthOf(P, k) == CHOOSE i \in P : Cardinality({ j \in P : j < i }) = k - 1

(* C13: the result for a resolution is that resolution's clustering output  *)
(* with every set intersected with the lexeme set and the empty             *)
(* intersections removed, the order kept; it is determined by the graph and *)
(* that clustering output alone; a graph without lexeme nodes gives the     *)
(* empty list for every resolution.                                         *)
C13_Projection ==
    DetectReturned =>
       /\ \A res \in Range(resolutions) :
             LET lexemes == LexemesOf(graph)
                 kept == KeptPositions(communities[res], lexemes)
                 lc == lexeme_communities[res]
             IN /\ Len(lc) = Cardinality(kept)
                /\ \A k \in 1..Len(lc) :
                      lc[k] = communities[res][KthOf(kept, k)] \cap lexemes
       /\ \A r1, r2 \in Range(resolutions) :
             communities[r1] = communities[r2]
                => lexeme_communities[r1] = lexeme_communities[r2]
       /\ LexemesOf(graph) = {} =>
             \A res \in Range(resolutions) : lexeme_communities[res] = <<>>

\* a run has returned a list that is shorter than the clustering output and
\* holds a set that was cut down to its lexemes
C13_Witness ==
    /\ DetectReturned
    /\ \E res \in DOMAIN lexeme_communities :
          /\ 0 < Len(lexeme_communities[res])
          /\ Len(lexeme_communities[res]) < Len(communities[res])
          /\ \E k \in 1..Len(lexeme_communities[res]) :
                lexeme_communities[res][k] \notin Range(communities[res])

-----------------------------------------------------------------------------
(* calculate_hierarchy_coefficient(lower_communities, upper_communities) on *)
(* two lists of sets of lexemes.  The lists are any lists: their sets may   *)
(* be empty, overlap, or leave lexemes out.                                 *)

\* most communities in the two lists of a call, taken together
MaxComms == 3

\* the lexemes of the communities
Verbs == {"v1", "v2", "v3"}

CommunityLists(n) == SeqsUpTo(SUBSET Verbs, n)

\* an optional value: None, or the value in a one-element sequence
None == <<>>
Some(x) == <<x>>

\* the function returning the last set that contains x
RECURSIVE find_set_containing_string_Last(_, _)
find_set_containing_string_Last(list_of_sets, x) ==
    IF list_of_sets = <<>> THEN None
    ELSE LET n == Len(list_of_sets)
         IN IF x \in list_of_sets[n] THEN Some(list_of_sets[n])
            ELSE find_set_containing_string_Last(SubSeq(list_of_sets, 1, n - 1), x)

RECURSIVE find_set_containing_string(_, _)
find_set_containing_string(list_of_sets, x) ==
    IF list_of_sets = <<>> THEN None
    ELSE IF x \in Head(list_of_sets) THEN Some(Head(list_of_sets))
    ELSE find_set_containing_string(Tail(list_of_sets), x)

\* the orders in which iterating a set of str may yield its members: the
\* order follows the hashes of the strings, which differ from run to run
IterationOrders(c) == { o \in [1..Cardinality(c) -> c] : Range(o) = c }

\* one iteration order for every community of the list
RECURSIVE OrderChoices(_)
OrderChoices(comms) ==
    IF comms = <<>> THEN { <<>> }
    ELSE { <<o>> \o r : o \in IterationOrders(Head(comms)),
                        r \in OrderChoices(Tail(comms)) }

\* list(combinations(community, 2)) for the members in iteration order o
RECURSIVE combinations2(_)
combinations2(o) ==
    IF Len(o) < 2 THEN <<>>
    ELSE [j \in 1..(Len(o) - 1) |-> <<o[1], o[j + 1]>>] \o combinations2(Tail(o))

\* the test without the membership of v2: finding a set for v1 is enough
SameSet_FoundOnly(lower, v1, v2) ==
    LET lower_set == find_set_containing_string(lower, v1)
    IN lower_set # None /\ lower_set[1] # {}

\* "if lower_set and v2 in lower_set"
SameSet(lower, v1, v2) ==
    LET lower_set == find_set_containing_string(lower, v1)
    IN lower_set # None /\ lower_set[1] # {} /\ v2 \in lower_set[1]

\* the inner loop over verb_pairs, with the outcome of the test of each pair
CheckPairs(lower, pairs) ==
    [k \in 1..Len(pairs) |->
        [v1 |-> pairs[k][1], v2 |-> pairs[k][2],
         same |-> SameSet(lower, pairs[k][1], pairs[k][2])]]

count_same_set(checks) == Cardinality({ k \in 1..Len(checks) : checks[k].same })

\* the quotient over the size of the community less one
ScoreOf_PerMember(checks, community) ==
    [num |-> count_same_set(checks), den |-> Cardinality(community) - 1]

\* the quotient over the ordered pairs of the community
ScoreOf_OrderedPairs(checks, community) ==
    [num |-> count_same_set(checks),
     den |-> Cardinality(community) * (Cardinality(community) - 1)]

\* score = count_same_set / len(verb_pairs), kept as an exact fraction
ScoreOf(checks, community) ==
    [num |-> count_same_set(checks), den |-> Len(checks)]

\* the decision taken on the first community alone
AllSingletons_FirstOnly(comms) ==
    comms # <<>> /\ Cardinality(comms[1]) = 1

\* all(len(s) == 1 for s in upper_communities)
AllSingletons(comms) == \A i \in 1..Len(comms) : Cardinality(comms[i]) = 1

\* positions of the communities with more than one member
MultiMember(comms) == { i \in 1..Len(comms) : Cardinality(comms[i]) > 1 }

\* the outer loop from community i on: the checked pairs of every community
\* with more than one member
RECURSIVE CommunityLoop(_, _, _, _)
CommunityLoop(lower, upper, orders, i) ==
    IF i > Len(upper) THEN <<>>
    ELSE IF Cardinality(upper[i]) > 1
         THEN << CheckPairs(lower, combinations2(orders[i])) >>
                 \o CommunityLoop(lower, upper, orders, i + 1)
         ELSE CommunityLoop(lower, upper, orders, i + 1)

\* the community of upper that the k-th element of the loop's result is for
CommunityOf(upper, k) == upper[KthOf(MultiMember(upper), k)]

SentinelText == << "Every lexeme in its own community" >>

\* the value returned, with the pairs as they were checked
calculate_hierarchy_coefficient(lower, upper, orders) ==
    IF AllSingletons(upper)
    THEN [ratings |-> StrCell(SentinelText), pairs |-> <<>>]
    ELSE LET checked == CommunityLoop(lower, upper, orders, 1)
         IN [ratings |->
                ListCell([k \in 1..Len(checked) |->
                             ScoreOf(checked[k], CommunityOf(upper, k))]),
             pairs |-> checked]

CoefInit ==
    /\ lower_communities \in CommunityLists(MaxComms)
    /\ upper_communities \in CommunityLists(MaxComms - Len(lower_communities))
    /\ verb_pairs = <<>>
    /\ community_ratings = ListCell(<<>>)
    /\ pc = "coef_call"
    /\ GraphIdle /\ TriIdle /\ CdIdle /\ RepIdle
    /\ ScriptIdle

CalculateCoefficient ==
    /\ pc = "coef_call"
    /\ \E orders \in OrderChoices(upper_communities) :
          LET r == calculate_hierarchy_coefficient(lower_communities,
                                                   upper_communities, orders)
          IN /\ community_ratings' = r.ratings
             /\ verb_pairs' = r.pairs
    /\ pc' = "coef_returned"
    /\ UNCHANGED <<lower_communities, upper_communities>>
    /\ UNCHANGED <<graphVars, triVars, cdVars, repVars>>
    /\ UNCHANGED scriptVars

CoefNext == CalculateCoefficient

SpecCoefficient == CoefInit /\ [][CoefNext]_vars

CoefReturned == pc = "coef_returned"

(* C14: if every community of the upper (finer) list has exactly one        *)
(* member, calculate_hierarchy_coefficient returns the sentinel 'Every      *)
(* lexeme in its own community' and no list of scores, whatever the lower   *)
(* list is.                                                                 *)
C14_Sentinel ==
    CoefReturned =>
       ((\A i \in 1..Len(upper_communities) :
            Cardinality(upper_communities[i]) = 1)
          => /\ community_ratings.kind = "str"
             /\ community_ratings.val = SentinelText)

\* a call with two singletons above and one community of two below has
\* returned the sentinel
C14_Witness ==
    /\ CoefReturned
    /\ Len(upper_communities) = 2
    /\ \A i \in 1..2 : Cardinality(upper_communities[i]) = 1
    /\ upper_communities[1] # upper_communities[2]
    /\ lower_communities = << upper_communities[1] \cup upper_communities[2] >>
    /\ community_ratings.kind = "str"

\* number of unordered pairs of members of c that lie together in one set of
\* the list
PairsTogether(c, comms) ==
    Cardinality({ p \in SUBSET c :
                    /\ Cardinality(p) = 2
                    /\ \E i \in 1..Len(comms) : p \subseteq comms[i] })

\* number of unordered pairs of members of c
PairsOf(c) == (Cardinality(c) * (Cardinality(c) - 1)) \div 2

\* the result is a list with one score per community of more than one
\* member, in their order, each the pairs lying together over all pairs
ScoresArePairsTogether ==
    /\ community_ratings.kind = "list"
    /\ Len(community_ratings.val) = Cardinality(MultiMember(upper_communities))
    /\ \A k \in 1..Len(community_ratings.val) :
          LET c == CommunityOf(upper_communities, k)
          IN /\ community_ratings.val[k].num = PairsTogether(c, lower_communities)
             /\ community_ratings.val[k].den = PairsOf(c)

NotAllSingletons(comms) == \E i \in 1..Len(comms) : Cardinality(comms[i]) # 1

\* no lexeme is in two sets of the list
PairwiseDisjoint(comms) ==
    \A i, j \in 1..Len(comms) : i # j => comms[i] \cap comms[j] = {}

C16_ScoreRange ==
    (CoefReturned /\ community_ratings.kind = "list") =>
       \A k \in 1..Len(community_ratings.val) :
          /\ community_ratings.val[k].den > 0
          /\ 0 <= community_ratings.val[k].num
          /\ community_ratings.val[k].num <= community_ratings.val[k].den

\* a call whose lower sets overlap and leave a member out has returned a
\* score strictly between 0 and 1
C16_Witness ==
    /\ CoefReturned
    /\ ~PairwiseDisjoint(lower_communities)
    /\ UNION Range(lower_communities) # Verbs
    /\ upper_communities = << Verbs >>
    /\ community_ratings.kind = "list"
    /\ community_ratings.val[1].num > 0
    /\ community_ratings.val[1].num < community_ratings.val[1].den

\* x is in no set of the list
InNoSet(comms, x) == \A i \in 1..Len(comms) : x \notin comms[i]

(* C17: a pair (v1, v2) whose v1 is in no set of the lower list counts as   *)
(* not co-located, and the call returns; find_set_containing_string gives   *)
(* the first set of the list, in list order, that contains the element, or  *)
(* None when no set does.                                                   *)
C17_MissingIsNotTogether ==
    /\ pc = "coef_call" => ENABLED CalculateCoefficient
    /\ CoefReturned =>
          /\ \A k \in 1..Len(verb_pairs) :
                /\ \A n \in 1..Len(verb_pairs[k]) :
                      InNoSet(lower_communities, verb_pairs[k][n].v1)
                         => ~verb_pairs[k][n].same
                /\ community_ratings.val[k].num =
                      Cardinality({ n \in 1..Len(verb_pairs[k]) :
                                      verb_pairs[k][n].same })
          /\ \A x \in Verbs :
                LET found == find_set_containing_string(lower_communities, x)
                IN IF InNoSet(lower_communities, x) THEN found = None
                   ELSE \E i \in 1..Len(lower_communities) :
                           /\ found = Some(lower_communities[i])
                           /\ x \in lower_communities[i]
                           /\ \A j \in 1..(i - 1) : x \notin lower_communities[j]

\* a call has returned in which a pair whose first member is in no lower set
\* was not counted and another pair of the same community was
C17_Witness ==
    /\ CoefReturned
    /\ \E k \in 1..Len(verb_pairs) :
          /\ \E n \in 1..Len(verb_pairs[k]) :
                /\ InNoSet(lower_communities, verb_pairs[k][n].v1)
                /\ ~InNoSet(lower_communities, verb_pairs[k][n].v2)
                /\ ~verb_pairs[k][n].same
          /\ \E n \in 1..Len(verb_pairs[k]) : verb_pairs[k][n].same

-----------------------------------------------------------------------------
(* analyze_hierarchy(communities, resolutions) followed by                  *)
(* create_hierarchy_dataframe(hierarchy_ratings, communities, resolutions), *)
(* as run_hierarchy_analysis calls them on the loaded communities and the   *)
(* resolution sweep of the command line.                                    *)

\* longest resolution sweep of a report
MaxSweep == 3

\* the sweeps np.round(np.arange(res_min, res_max + res_step, res_step), 1)
\* can give: values in ascending order, equal neighbours included
Sweeps ==
    { w \in SeqsUpTo(ResValues, MaxSweep) :
        \A i \in 1..(Len(w) - 1) : w[i] <= w[i + 1] }

\* the lexemes of the loaded communities
ReportVerbs == {"v1", "v2"}

\* the resolutions a communities file may hold
KeySets == { {0}, {0, 10} }

\* the loaded communities: a list of sets for every resolution of the file,
\* at most MaxComms sets in all
RECURSIVE CommunityMaps(_, _)
CommunityMaps(keys, n) ==
    IF keys = {} THEN { <<>> }
    ELSE LET k == CHOOSE x \in keys : \A y \in keys : x <= y
         IN UNION { { SetItem(m, k, l) : m \in CommunityMaps(keys \ {k}, n - Len(l)) } :
                    l \in SeqsUpTo(SUBSET ReportVerbs, n) }

\* str() of a resolution given in tenths: "0.0", "1.0"
FormatRes(t) == Str(t \div 10) \o <<".">> \o Str(t % 10)

\* f"{lower_res}_{upper_res}"
PairKey(lower_res, upper_res) ==
    FormatRes(lower_res) \o <<"_">> \o FormatRes(upper_res)

\* tuples = [(resolutions[i], resolutions[i+1]) for i in range(len(resolutions) - 1)]
ResolutionPairs(w) == [i \in 1..(Len(w) - 1) |-> <<w[i], w[i + 1]>>]

\* d[key] = value on a dict that keeps the order in which its keys came
DictSet(d, key, value) ==
    IF \E i \in 1..Len(d) : d[i].key = key
    THEN [i \in 1..Len(d) |-> IF d[i].key = key
                              THEN [key |-> key, value |-> value] ELSE d[i]]
    ELSE Append(d, [key |-> key, value |-> value])

\* the values calculate_hierarchy_coefficient may return for two lists
PossibleRatings(lower, upper) ==
    { calculate_hierarchy_coefficient(lower, upper, o).ratings :
        o \in OrderChoices(upper) }

\* the dicts the loop over tuples may build from pair i on
RECURSIVE AnalyzeLoop(_, _, _, _)
AnalyzeLoop(comms, tuples, i, ratings) ==
    IF i > Len(tuples) THEN { ratings }
    ELSE LET lower_res == tuples[i][1]
             upper_res == tuples[i][2]
         IN UNION { AnalyzeLoop(comms, tuples, i + 1,
                                DictSet(ratings, PairKey(lower_res, upper_res), r)) :
                    r \in PossibleRatings(comms[lower_res], comms[upper_res]) }

\* a resolution of a pair is no key of communities
MissingKey(comms, w) ==
    Len(w) >= 2 /\ \E i \in 1..Len(w) : w[i] \notin DOMAIN comms

NumCell(q) == [kind |-> "num", val |-> q]

\* sum(values) of a list of fractions
RECURSIVE SumScores(_)
SumScores(values) ==
    IF values = <<>> THEN [num |-> 0, den |-> 1]
    ELSE LET h == Head(values)
             r == SumScores(Tail(values))
         IN [num |-> h.num * r.den + r.num * h.den, den |-> h.den * r.den]

\* the sum of the scores in the place of their mean
AverageOf_Sum(values) ==
    IF values.kind = "str" THEN values
    ELSE IF values.val = <<>> THEN NumCell([num |-> 0, den |-> 1])
    ELSE NumCell(SumScores(values.val))

\* values if isinstance(values, str) else (sum(values) / len(values) if values else 0)
AverageOf(values) ==
    IF values.kind = "str" THEN values
    ELSE IF values.val = <<>> THEN NumCell([num |-> 0, den |-> 1])
    ELSE LET total == SumScores(values.val)
         IN NumCell([num |-> total.num, den |-> total.den * Len(values.val)])

\* pd.DataFrame(list(averages.items()), columns=['Keys', 'Averages'])
AveragesFrame(ratings) ==
    [i \in 1..Len(ratings) |->
        [Keys |-> ratings[i].key, Averages |-> AverageOf(ratings[i].value)]]

\* [len(communities[x]) for x in resolutions[:-1]]
ncomms_upper(comms, w) == [i \in 1..(Len(w) - 1) |-> Len(comms[w[i]])]

\* [len(communities[x]) for x in resolutions[1:]]
ncomms_lower(comms, w) == [i \in 1..(Len(w) - 1) |-> Len(comms[w[i + 1]])]

\* df_hierarchy['ncomms_upper'] = ...; df_hierarchy['ncomms_lower'] = ...
WithCounts(frame, upper_counts, lower_counts) ==
    [i \in 1..Len(frame) |->
        [Keys |-> frame[i].Keys, Averages |-> frame[i].Averages,
         ncomms_upper |-> upper_counts[i], ncomms_lower |-> lower_counts[i]]]

ReportInit ==
    /\ \E keys \in KeySets : h_communities \in CommunityMaps(keys, MaxComms)
    /\ h_resolutions \in Sweeps
    /\ hierarchy_ratings = <<>>
    /\ df_hierarchy = <<>>
    /\ pc = "rep_call"
    /\ GraphIdle /\ TriIdle /\ CdIdle /\ CoefIdle
    /\ ScriptIdle

\* hierarchy_ratings = analyze_hierarchy(communities, resolutions)
AnalyzeHierarchy ==
    /\ pc = "rep_call"
    /\ ~MissingKey(h_communities, h_resolutions)
    /\ hierarchy_ratings' \in
          AnalyzeLoop(h_communities, ResolutionPairs(h_resolutions), 1, <<>>)
    /\ pc' = "rep_analyzed"
    /\ UNCHANGED <<h_communities, h_resolutions, df_hierarchy>>
    /\ UNCHANGED <<graphVars, triVars, cdVars, coefVars>>
    /\ UNCHANGED scriptVars

\* communities[lower_res] or communities[upper_res] raises KeyError
AnalyzeHierarchyRaises ==
    /\ pc = "rep_call"
    /\ MissingKey(h_communities, h_resolutions)
    /\ pc' = "rep_raised"
    /\ UNCHANGED <<h_communities, h_resolutions, hierarchy_ratings, df_hierarchy>>
    /\ UNCHANGED <<graphVars, triVars, cdVars, coefVars>>
    /\ UNCHANGED scriptVars

\* df_hierarchy = create_hierarchy_dataframe(hierarchy_ratings, communities, resolutions)
CreateHierarchyDataframe ==
    /\ pc = "rep_analyzed"
    /\ Len(ncomms_upper(h_communities, h_resolutions)) = Len(hierarchy_ratings)
    /\ df_hierarchy' = WithCounts(AveragesFrame(hierarchy_ratings),
                                  ncomms_upper(h_communities, h_resolutions),
                                  ncomms_lower(h_communities, h_resolutions))
    /\ pc' = "rep_returned"
    /\ UNCHANGED <<h_communities, h_resolutions, hierarchy_ratings>>
    /\ UNCHANGED <<graphVars, triVars, cdVars, coefVars>>
    /\ UNCHANGED scriptVars

\* the column assignment raises ValueError: the list of counts and the frame
\* differ in length
CreateHierarchyDataframeRaises ==
    /\ pc = "rep_analyzed"
    /\ Len(ncomms_upper(h_communities, h_resolutions)) # Len(hierarchy_ratings)
    /\ pc' = "rep_raised"
    /\ UNCHANGED <<h_communities, h_resolutions, hierarchy_ratings, df_hierarchy>>
    /\ UNCHANGED <<graphVars, triVars, cdVars, coefVars>>
    /\ UNCHANGED scriptVars

ReportNext ==
    \/ AnalyzeHierarchy
    \/ AnalyzeHierarchyRaises
    \/ CreateHierarchyDataframe
    \/ CreateHierarchyDataframeRaises

SpecReport == ReportInit /\ [][ReportNext]_vars

ReportReturned == pc = "rep_returned"

\* the product of the denominators of a list of fractions
RECURSIVE ProdDen(_)
ProdDen(values) ==
    IF values = <<>> THEN 1 ELSE Head(values).den * ProdDen(Tail(values))

\* the sum of the fractions of a list, as a count of 1/ProdDen(values)
RECURSIVE SumOver(_, _)
SumOver(values, d) ==
    IF values = <<>> THEN 0
    ELSE Head(values).num * (d \div Head(values).den) + SumOver(Tail(values), d)

\* the fraction a is the arithmetic mean of the fractions of the list
IsMeanOf(a, values) ==
    LET d == ProdDen(values)
    IN a.num * d * Len(values) = a.den * SumOver(values, d)

(* C18: the average reported for a pair is the sentinel string itself when  *)
(* the pair's result is the sentinel, 0 when the pair's score sequence is   *)
(* empty, and the arithmetic mean of the scores otherwise.                  *)
C18_Averages ==
    ReportReturned =>
       /\ Len(df_hierarchy) = Len(hierarchy_ratings)
       /\ \A i \in 1..Len(df_hierarchy) :
             LET values == hierarchy_ratings[i].value
                 a == df_hierarchy[i].Averages
             IN /\ df_hierarchy[i].Keys = hierarchy_ratings[i].key
                /\ values.kind = "str" =>
                      a.kind = "str" /\ a.val = SentinelText
                /\ (values.kind = "list" /\ values.val = <<>>) =>
                      a.kind = "num" /\ a.val.num = 0 /\ a.val.den # 0
                /\ (values.kind = "list" /\ values.val # <<>>) =>
                      a.kind = "num" /\ a.val.den # 0 /\ IsMeanOf(a.val, values.val)

\* a report has been returned whose first row averages two scores and whose
\* second row carries the sentinel
C18_Witness ==
    /\ ReportReturned
    /\ Len(df_hierarchy) = 2
    /\ hierarchy_ratings[1].value.kind = "list"
    /\ Len(hierarchy_ratings[1].value.val) = 2
    /\ df_hierarchy[1].Averages.kind = "num"
    /\ df_hierarchy[1].Averages.val.num > 0
    /\ df_hierarchy[2].Averages.kind = "str"

(* C19 as stated: the row of pair (r_i, r_i+1) has the key 'r_i_r_i+1'; its *)
(* column ncomms_upper is the number of communities at the upper resolution *)
(* r_i+1 and its column ncomms_lower the number at the lower resolution r_i *)
C19_CountsByName ==
    ReportReturned =>
       \A i \in 1..Len(df_hierarchy) :
          /\ df_hierarchy[i].Keys = PairKey(h_resolutions[i], h_resolutions[i + 1])
          /\ df_hierarchy[i].ncomms_upper = Len(h_communities[h_resolutions[i + 1]])
          /\ df_hierarchy[i].ncomms_lower = Len(h_communities[h_resolutions[i]])

\* every value of the sweep is a key of communities
AllKeys == \A i \in 1..Len(h_resolutions) : h_resolutions[i] \in DOMAIN h_communities

(* C20 as stated: for every ascending sweep of n >= 1 values that are all   *)
(* keys of communities, equal neighbours included, the two calls yield a    *)
(* report of exactly n-1 rows, one per adjacent pair, in sweep order.       *)
C20_RowPerPair ==
    (Len(h_resolutions) >= 1 /\ AllKeys) =>
       /\ pc # "rep_raised"
       /\ ReportReturned =>
             /\ Len(df_hierarchy) = Len(h_resolutions) - 1
             /\ \A i \in 1..Len(df_hierarchy) :
                   df_hierarchy[i].Keys =
                      PairKey(h_resolutions[i], h_resolutions[i + 1])

-----------------------------------------------------------------------------
(* The comparison of one adjacent pair of resolutions, (0.0, 1.0), as the   *)
(* standalone script get_communities.py does it and as analyze_hierarchy    *)
(* does it, on the same mapping from resolution to communities.             *)

\* the adjacent pair the two programs compare
EqTuple == <<0, 10>>

\* the roles taken by position in the tuple: the first resolution's
\* communities are iterated, the second's are searched
ScriptRoles_FirstIterated(comms, tuple) ==
    [iterated |-> comms[tuple[1]], searched |-> comms[tuple[2]]]

\* "for upper_res, lower_res in tuples": lower_comms = new_comms[lower_res] is
\* iterated, upper_comms = new_comms[upper_res] is searched
ScriptRoles(comms, tuple) ==
    LET upper_res == tuple[1]
        lower_res == tuple[2]
    IN [iterated |-> comms[lower_res], searched |-> comms[upper_res]]

\* "for lower_res, upper_res in tuples": upper_comms = communities[upper_res]
\* is iterated, lower_comms = communities[lower_res] is searched
ModuleRoles(comms, tuple) ==
    LET lower_res == tuple[1]
        upper_res == tuple[2]
    IN [iterated |-> comms[upper_res], searched |-> comms[lower_res]]

\* the script's find_set_containing_string falls off its loop and so
\* returns None
ScriptFind(list_of_sets, x) == find_set_containing_string(list_of_sets, x)

\* "if v2 in s" raises TypeError when s is None
ScriptPairRaises(searched, pair) == ScriptFind(searched, pair[1]) = None

\* "s = find_set_containing_string(upper_comms, v1); if v2 in s"
ScriptSameSet(searched, v1, v2) == v2 \in ScriptFind(searched, v1)[1]

\* the pairs the script goes through, community after community:
\* communities of at least two members ("if comm and len(comm) != 1")
RECURSIVE ScriptPairs(_, _, _)
ScriptPairs(iterated, orders, i) ==
    IF i > Len(iterated) THEN <<>>
    ELSE IF Cardinality(iterated[i]) # 0 /\ Cardinality(iterated[i]) # 1
         THEN << combinations2(orders[i]) >> \o ScriptPairs(iterated, orders, i + 1)
         ELSE ScriptPairs(iterated, orders, i + 1)

\* the script's loop raises at the first pair whose v1 is in no searched set
ScriptRaises(roles, orders) ==
    /\ ~AllSingletons(roles.iterated)
    /\ LET pairs == ScriptPairs(roles.iterated, orders, 1)
       IN \E k \in 1..Len(pairs) : \E n \in 1..Len(pairs[k]) :
             ScriptPairRaises(roles.searched, pairs[k][n])

\* hierarchy_ratings[str(lower_res) + "_" + str(upper_res)] of the script
ScriptRatings(roles, orders) ==
    IF AllSingletons(roles.iterated) THEN StrCell(SentinelText)
    ELSE LET pairs == ScriptPairs(roles.iterated, orders, 1)
         IN ListCell([k \in 1..Len(pairs) |->
               [num |-> Cardinality({ n \in 1..Len(pairs[k]) :
                           ScriptSameSet(roles.searched, pairs[k][n][1], pairs[k][n][2]) }),
                den |-> Len(pairs[k])]])

\* what a program did for the pair: the list whose communities it iterated,
\* the list it searched, and the value it stored for the pair
Outcome(roles, ratings) ==
    [iterated |-> roles.iterated, searched |-> roles.searched, ratings |-> ratings]

\* the script stopped with TypeError
Raised(roles) ==
    [iterated |-> roles.iterated, searched |-> roles.searched,
     ratings |-> [kind |-> "raised", val |-> <<>>]]

EqInit ==
    /\ \E lo \in CommunityLists(MaxComms) :
          \E hi \in CommunityLists(MaxComms - Len(lo)) :
             new_comms = SetItem(SetItem(<<>>, 0, lo), 10, hi)
    /\ script_result = <<>>
    /\ module_result = <<>>
    /\ pc = "eq_script"
    /\ GraphIdle /\ TriIdle /\ CdIdle /\ CoefIdle /\ RepIdle
    /\ RerunIdle /\ PipeIdle /\ Step5Idle /\ ConsIdle

\* the body of the script's loop over tuples, for the pair
ScriptCompare ==
    /\ pc = "eq_script"
    /\ LET roles == ScriptRoles(new_comms, EqTuple)
       IN \E orders \in OrderChoices(roles.iterated) :
             /\ ~ScriptRaises(roles, orders)
             /\ script_result' = Outcome(roles, ScriptRatings(roles, orders))
    /\ pc' = "eq_module"
    /\ UNCHANGED <<new_comms, module_result>>
    /\ UNCHANGED <<graphVars, triVars, cdVars, coefVars, repVars>>
    /\ UNCHANGED <<rerunVars, pipeVars, step5Vars, consVars>>

\* the same, stopping with TypeError at "if v2 in s"
ScriptCompareRaises ==
    /\ pc = "eq_script"
    /\ LET roles == ScriptRoles(new_comms, EqTuple)
       IN \E orders \in OrderChoices(roles.iterated) :
             /\ ScriptRaises(roles, orders)
             /\ script_result' = Raised(roles)
    /\ pc' = "eq_module"
    /\ UNCHANGED <<new_comms, module_result>>
    /\ UNCHANGED <<graphVars, triVars, cdVars, coefVars, repVars>>
    /\ UNCHANGED <<rerunVars, pipeVars, step5Vars, consVars>>

\* the body of analyze_hierarchy's loop over tuples, for the pair
ModuleCompare ==
    /\ pc = "eq_module"
    /\ LET roles == ModuleRoles(new_comms, EqTuple)
       IN \E orders \in OrderChoices(roles.iterated) :
             module_result' =
                Outcome(roles,
                        calculate_hierarchy_coefficient(roles.searched,
                                                        roles.iterated, orders).ratings)
    /\ pc' = "eq_done"
    /\ UNCHANGED <<new_comms, script_result>>
    /\ UNCHANGED <<graphVars, triVars, cdVars, coefVars, repVars>>
    /\ UNCHANGED <<rerunVars, pipeVars, step5Vars, consVars>>

EqNext == ScriptCompare \/ ScriptCompareRaises \/ ModuleCompare

SpecEquivalence == EqInit /\ [][EqNext]_vars

\* the list is a partition of the set: non-empty, pairwise disjoint sets
\* that cover it
IsPartitionOf(comms, S) ==
    /\ \A i \in 1..Len(comms) : comms[i] # {}
    /\ PairwiseDisjoint(comms)
    /\ UNION Range(comms) = S

\* both resolutions hold a partition of the same set of lexemes
ValidPartitions ==
    \E S \in SUBSET Verbs :
       IsPartitionOf(new_comms[0], S) /\ IsPartitionOf(new_comms[10], S)

(* C21: for an adjacent pair of resolutions and two valid partitions of the *)
(* lexemes, the standalone script and the modular analyzer iterate the      *)
(* communities of the same partition, search the same other partition, and  *)
(* store the same sentinel or the same sequence of scores.                  *)
C21_SameComparison ==
    (pc = "eq_done" /\ ValidPartitions) =>
       /\ script_result.iterated = module_result.iterated
       /\ script_result.searched = module_result.searched
       /\ script_result.ratings.kind = module_result.ratings.kind
       /\ script_result.ratings.val = module_result.ratings.val

\* both programs have run on two different valid partitions, the finer one
\* of two communities, and the analyzer has stored the single score 1/1
C21_Witness ==
    /\ pc = "eq_done"
    /\ ValidPartitions
    /\ new_comms[0] # new_comms[10]
    /\ module_result.ratings.kind = "list"
    /\ module_result.ratings.val = << [num |-> 1, den |-> 1] >>
    /\ Len(new_comms[10]) = 2

-----------------------------------------------------------------------------
(* Two runs of the community detector, each in a process of its own, on the *)
(* same graph and resolution, for a caller that wants both runs made with   *)
(* the same seed.                                                           *)

\* the seeds a caller may want
Seeds == {7, 42}

\* louvain_communities(graph, resolution=res, seed=s): with a seed the result
\* is a function of the arguments; with seed=None the node order is shuffled
\* by the process-global random state, which differs from process to process
louvain_with_seed(g, res, s) ==
    IF s = None THEN louvain_communities(g)
    ELSE { CHOOSE p \in louvain_communities(g) : TRUE }

\* the seed argument of the call at community_detector.py:44: there is none,
\* and detect_communities_multiresolution has no seed parameter either
LouvainSeedArgument(wanted) == None

\* detect_communities_multiresolution(graph, [res])[res]
DetectOne(g, res, wanted) ==
    { ProjectOnLexemes(p, LexemesOf(g)) :
        p \in louvain_with_seed(g, res, LouvainSeedArgument(wanted)) }

RerunInit ==
    /\ seed \in Seeds
    /\ run_graph \in Graphs
    /\ run_resolution \in ResValues
    /\ seed_arg = None
    /\ first_run = <<>>
    /\ second_run = <<>>
    /\ pc = "rerun_first"
    /\ GraphIdle /\ TriIdle /\ CdIdle /\ CoefIdle /\ RepIdle
    /\ EqIdle /\ PipeIdle /\ Step5Idle /\ ConsIdle

FirstRun ==
    /\ pc = "rerun_first"
    /\ first_run' \in DetectOne(run_graph, run_resolution, seed)
    /\ seed_arg' = LouvainSeedArgument(seed)
    /\ pc' = "rerun_second"
    /\ UNCHANGED <<seed, run_graph, run_resolution, second_run>>
    /\ UNCHANGED <<graphVars, triVars, cdVars, coefVars, repVars, eqVars, pipeVars, step5Vars, consVars>>

SecondRun ==
    /\ pc = "rerun_second"
    /\ second_run' \in DetectOne(run_graph, run_resolution, seed)
    /\ seed_arg' = LouvainSeedArgument(seed)
    /\ pc' = "rerun_done"
    /\ UNCHANGED <<seed, run_graph, run_resolution, first_run>>
    /\ UNCHANGED <<graphVars, triVars, cdVars, coefVars, repVars, eqVars, pipeVars, step5Vars, consVars>>

RerunNext == FirstRun \/ SecondRun

SpecRerun == RerunInit /\ [][RerunNext]_vars

(* C22 as stated: two runs of the detector on the same graph, the same      *)
(* resolution and the same fixed seed return partitions with the same set   *)
(* of lexeme sets, and the detector hands the seed to the clustering        *)
(* primitive.                                                               *)
C22_SeededRunsAgree ==
    pc = "rerun_done" =>
       /\ Range(first_run) = Range(second_run)
       /\ seed_arg = Some(seed)

-----------------------------------------------------------------------------
(* Empty inputs of the hierarchy analysis.                                  *)

\* every resolution of the file holds the empty list of communities
NoLexemes == \A r \in DOMAIN h_communities : h_communities[r] = <<>>

ReportAnalyzed == pc \in {"rep_analyzed", "rep_returned"}

(* C23 as stated, for the hierarchy analysis: empty inputs never fail; a    *)
(* sweep of zero or one resolution gives an empty hierarchy result, and     *)
(* communities without lexemes (the empty list at every resolution) give an *)
(* empty or zero result for every pair.                                     *)
C23_EmptyInputs ==
    /\ (Len(h_resolutions) <= 1 \/ (NoLexemes /\ AllKeys)) => pc # "rep_raised"
    /\ (Len(h_resolutions) <= 1 /\ ReportAnalyzed) => hierarchy_ratings = <<>>
    /\ (NoLexemes /\ AllKeys /\ ReportAnalyzed) =>
          \A i \in 1..Len(hierarchy_ratings) :
             /\ hierarchy_ratings[i].value.kind = "list"
             /\ hierarchy_ratings[i].value.val = <<>>

-----------------------------------------------------------------------------
(* scripts/run_pipeline.py: main and run_pipeline_for_language.  A command  *)
(* is kept as the script it starts with the options put on its line; every  *)
(* command may succeed or exit with a non-zero status.                      *)

\* longest list of steps given with --steps
MaxSteps == 3

\* the steps in the order run_pipeline_for_language tests for them
StepOrder == <<"load", "simulate", "graphs", "community", "hierarchy">>

\* valid_steps
valid_steps == Range(StepOrder)

\* the names --steps may list, one of them no step
StepTokens == valid_steps \cup {"plot"}

\* the lists --steps may give after the split at commas: at least one name
StepLists == SeqsUpTo(StepTokens, MaxSteps) \ { <<>> }

\* the values of --seed (type=int, default=42)
PipeSeeds == {0, 7, 42}

\* the values of --res-min, --res-max, --res-step: absent (None) or given
ResOptions ==
    { [res_min |-> None, res_max |-> None, res_step |-> None],
      [res_min |-> Some(0), res_max |-> None, res_step |-> None],
      [res_min |-> Some(0), res_max |-> Some(20), res_step |-> Some(1)] }

\* the languages main settles on; none when get_languages() finds none or
\* validate_language raises
LanguageLists == { <<>>, <<"bcms">>, <<"bcms", "french">> }

\* "if args.seed: cmd += f' --seed {args.seed}'": 0 is falsy
SeedOption(a) == IF a.seed # 0 THEN Some(a.seed) ELSE None

\* the step whose command fails does not end the function
AfterFailure_Continue(k) == [pc |-> "pipe_step", step_no |-> k + 1, returned |-> <<>>]

\* "if not run_command(...): return False"
AfterFailure(k) == [pc |-> "pipe_returned", step_no |-> k, returned |-> <<FALSE>>]

\* the languages after a failed one are left out
RemainingLanguages_StopAtFailure(i) ==
    IF results[i] THEN language_i < Len(languages) ELSE FALSE

\* "for language in languages": another language is left
RemainingLanguages(i) == language_i < Len(languages)

\* the command line of a step
CommandOf(step, language, a) ==
    [script |-> step,
     language |-> language,
     seed |-> IF step = "simulate" THEN SeedOption(a) ELSE None,
     res_min |-> IF step \in {"community", "hierarchy"} THEN a.res_min ELSE None,
     res_max |-> IF step \in {"community", "hierarchy"} THEN a.res_max ELSE None,
     res_step |-> IF step \in {"community", "hierarchy"} THEN a.res_step ELSE None]

\* invalid_steps = set(steps) - valid_steps
invalid_steps == Range(steps) \ valid_steps

\* success_count
success_count == Cardinality({ i \in 1..Len(results) : results[i] })

PipeInit ==
    /\ \E sd \in PipeSeeds, ro \in ResOptions :
          args = [seed |-> sd, res_min |-> ro.res_min,
                  res_max |-> ro.res_max, res_step |-> ro.res_step]
    /\ steps \in StepLists
    /\ languages \in LanguageLists
    /\ language_i = 0
    /\ step_no = 0
    /\ commands = <<>>
    /\ results = <<>>
    /\ exit_status = -1
    /\ pc = "main"
    /\ GraphIdle /\ TriIdle /\ CdIdle /\ CoefIdle /\ RepIdle
    /\ EqIdle /\ RerunIdle /\ Step5Idle /\ ConsIdle

PipeFrame ==
    UNCHANGED <<graphVars, triVars, cdVars, coefVars, repVars, eqVars, rerunVars, step5Vars, consVars>>

\* main: "if invalid_steps: return 1"
MainInvalidSteps ==
    /\ pc = "main"
    /\ invalid_steps # {}
    /\ exit_status' = 1
    /\ pc' = "exited"
    /\ UNCHANGED <<args, steps, languages, language_i, step_no, commands, results>>
    /\ PipeFrame

\* main: no language to process, return 1
MainNoLanguages ==
    /\ pc = "main"
    /\ invalid_steps = {}
    /\ languages = <<>>
    /\ exit_status' = 1
    /\ pc' = "exited"
    /\ UNCHANGED <<args, steps, languages, language_i, step_no, commands, results>>
    /\ PipeFrame

\* main enters "for language in languages" and calls
\* run_pipeline_for_language for the first language
MainStartsLoop ==
    /\ pc = "main"
    /\ invalid_steps = {}
    /\ languages # <<>>
    /\ language_i' = 1
    /\ step_no' = 1
    /\ pc' = "pipe_step"
    /\ UNCHANGED <<args, steps, languages, commands, results, exit_status>>
    /\ PipeFrame

\* 'if "<step>" in steps' is false
SkipStep ==
    /\ pc = "pipe_step"
    /\ step_no <= Len(StepOrder)
    /\ StepOrder[step_no] \notin Range(steps)
    /\ step_no' = step_no + 1
    /\ UNCHANGED <<pc, args, steps, languages, language_i, commands, results, exit_status>>
    /\ PipeFrame

\* the step's command is run and succeeds
RunStep ==
    /\ pc = "pipe_step"
    /\ step_no <= Len(StepOrder)
    /\ StepOrder[step_no] \in Range(steps)
    /\ commands' = Append(commands,
                          [cmd |-> CommandOf(StepOrder[step_no], languages[language_i], args),
                           ok |-> TRUE])
    /\ step_no' = step_no + 1
    /\ UNCHANGED <<pc, args, steps, languages, language_i, results, exit_status>>
    /\ PipeFrame

\* the step's command is run and fails: run_command returns False
RunStepFails ==
    /\ pc = "pipe_step"
    /\ step_no <= Len(StepOrder)
    /\ StepOrder[step_no] \in Range(steps)
    /\ commands' = Append(commands,
                          [cmd |-> CommandOf(StepOrder[step_no], languages[language_i], args),
                           ok |-> FALSE])
    /\ LET next == AfterFailure(step_no)
       IN /\ pc' = next.pc
          /\ step_no' = next.step_no
          /\ results' = results \o next.returned
    /\ UNCHANGED <<args, steps, languages, language_i, exit_status>>
    /\ PipeFrame

\* the last test is passed: return True
PipelineReturnsTrue ==
    /\ pc = "pipe_step"
    /\ step_no > Len(StepOrder)
    /\ results' = Append(results, TRUE)
    /\ pc' = "pipe_returned"
    /\ UNCHANGED <<args, steps, languages, language_i, step_no, commands, exit_status>>
    /\ PipeFrame

\* main goes on with the next language
NextLanguage ==
    /\ pc = "pipe_returned"
    /\ RemainingLanguages(language_i)
    /\ language_i' = language_i + 1
    /\ step_no' = 1
    /\ pc' = "pipe_step"
    /\ UNCHANGED <<args, steps, languages, commands, results, exit_status>>
    /\ PipeFrame

\* the loop is over: 0 when success_count == len(languages), else 1
MainReturns ==
    /\ pc = "pipe_returned"
    /\ ~RemainingLanguages(language_i)
    /\ exit_status' = IF success_count = Len(languages) THEN 0 ELSE 1
    /\ pc' = "exited"
    /\ UNCHANGED <<args, steps, languages, language_i, step_no, commands, results>>
    /\ PipeFrame

PipeNext ==
    \/ MainInvalidSteps
    \/ MainNoLanguages
    \/ MainStartsLoop
    \/ SkipStep
    \/ RunStep
    \/ RunStepFails
    \/ PipelineReturnsTrue
    \/ NextLanguage
    \/ MainReturns

SpecPipeline == PipeInit /\ [][PipeNext]_vars

\* position of a step in the fixed order
OrderNo(step) == CHOOSE k \in 1..Len(StepOrder) : StepOrder[k] = step

\* the positions in commands of the commands run for a language
CommandsFor(language) ==
    { k \in 1..Len(commands) : commands[k].cmd.language = language }

\* main has entered its loop over the languages
LoopEntered == invalid_steps = {} /\ languages # <<>>

(* C24: for one language the selected steps run in the order load,          *)
(* simulate, graphs, community, hierarchy whatever the order of --steps,    *)
(* each at most once; after a failed command no further step runs for that  *)
(* language and the function returns False; it returns True only if every   *)
(* selected step's command succeeded; an invalid step name makes main       *)
(* return 1 before any command is run.                                      *)
C24_StepOrder ==
    /\ \A j, k \in 1..Len(commands) :
          (j < k /\ commands[j].cmd.language = commands[k].cmd.language) =>
             /\ OrderNo(commands[j].cmd.script) < OrderNo(commands[k].cmd.script)
             /\ commands[j].ok
    /\ \A k \in 1..Len(commands) : commands[k].cmd.script \in Range(steps)
    /\ \A i \in 1..Len(results) :
          LET mine == CommandsFor(languages[i])
          IN /\ ~results[i] <=> \E k \in mine : ~commands[k].ok
             /\ results[i] =>
                   \A st \in Range(steps) :
                      \E k \in mine : commands[k].cmd.script = st /\ commands[k].ok
    /\ invalid_steps # {} =>
          /\ commands = <<>>
          /\ pc = "exited" => exit_status = 1

\* --steps named a later step before an earlier one; the first language got
\* as far as its second command, which failed, and the function returned
\* False for it
C24_Witness ==
    /\ Len(steps) >= 2
    /\ steps[1] \in valid_steps /\ steps[2] \in valid_steps
    /\ OrderNo(steps[1]) > OrderNo(steps[2])
    /\ Len(commands) = 2
    /\ commands[1].cmd.script = steps[2] /\ commands[1].ok
    /\ commands[2].cmd.script = steps[1] /\ ~commands[2].ok
    /\ results = <<FALSE>>

(* C25: once main processes languages, a failed pipeline of one language    *)
(* does not keep it from processing every remaining language, and the exit  *)
(* status is 0 exactly when the pipeline of every language succeeded.       *)
C25_EveryLanguageProcessed ==
    (pc = "exited" /\ LoopEntered) =>
       /\ Len(results) = Len(languages)
       /\ \A i \in 1..Len(languages) : CommandsFor(languages[i]) # {}
       /\ exit_status = 0 <=> \A i \in 1..Len(results) : results[i]

\* main has exited with status 1 after the first language failed and the
\* second succeeded
C25_Witness ==
    /\ pc = "exited"
    /\ Len(languages) = 2
    /\ results = <<FALSE, TRUE>>
    /\ exit_status = 1
    /\ \E k \in CommandsFor(languages[2]) : commands[k].ok

(* C27 as stated: for every integer seed given with --seed, the command of  *)
(* the simulate step carries --seed with that value; the commands of the    *)
(* community and hierarchy steps carry the same --res-min, --res-max and    *)
(* --res-step.                                                              *)
C27_SeedAndResolutionOptions ==
    \A k \in 1..Len(commands) :
       LET c == commands[k].cmd
       IN /\ c.script = "simulate" => c.seed = Some(args.seed)
          /\ c.script \in {"community", "hierarchy"} =>
                /\ c.res_min = args.res_min
                /\ c.res_max = args.res_max
                /\ c.res_step = args.res_step

-----------------------------------------------------------------------------
(* C28: when every clustering run returned a partition of all graph nodes,  *)
(* every lexeme node of the graph is in exactly one set of the list kept    *)
(* for every resolution: dropping the communities made of exponents alone   *)
(* loses no lexeme.                                                         *)
C28_LexemesCovered ==
    DetectReturned =>
       \A res \in Range(resolutions) :
          \A n \in LexemesOf(graph) :
             Cardinality({ i \in 1..Len(lexeme_communities[res]) :
                             n \in lexeme_communities[res][i] }) = 1

\* a run has returned for a graph with a lexeme, where a clustering held a
\* community of exponents alone, which was dropped, and a community mixing
\* the lexeme with an exponent
C28_Witness ==
    /\ DetectReturned
    /\ LexemesOf(graph) # {}
    /\ \E res \in Range(resolutions) :
          /\ \E i \in 1..Len(communities[res]) :
                communities[res][i] \cap LexemesOf(graph) = {}
          /\ \E i \in 1..Len(communities[res]) :
                /\ communities[res][i] \cap LexemesOf(graph) # {}
                /\ communities[res][i] \ LexemesOf(graph) # {}
          /\ Len(lexeme_communities[res]) < Len(communities[res])

-----------------------------------------------------------------------------
\* the community lies within one set of the list
NestedIn(c, comms) == \E j \in 1..Len(comms) : c \subseteq comms[j]

\* the score is 1
IsOne(score) == score.den > 0 /\ score.num = score.den

(* C29: for a lower (coarser) list of pairwise disjoint sets and an upper   *)
(* (finer) list that is not all singletons, a score is 1 exactly when its   *)
(* community lies within one lower set, so all scores are 1 exactly when    *)
(* every upper community of more than one member does; the lower list being *)
(* the upper list itself, or one set holding every lexeme, gives only       *)
(* scores of 1; and the outcome of a pair is the same whichever of its two  *)
(* members is looked up.                                                    *)
C29_PerfectNesting ==
    (CoefReturned /\ PairwiseDisjoint(lower_communities)
                  /\ NotAllSingletons(upper_communities)) =>
       /\ community_ratings.kind = "list"
       /\ Len(community_ratings.val) = Cardinality(MultiMember(upper_communities))
       /\ \A k \in 1..Len(community_ratings.val) :
             IsOne(community_ratings.val[k])
                <=> NestedIn(CommunityOf(upper_communities, k), lower_communities)
       /\ (\A k \in 1..Len(community_ratings.val) : IsOne(community_ratings.val[k]))
             <=> \A i \in MultiMember(upper_communities) :
                    NestedIn(upper_communities[i], lower_communities)
       /\ (lower_communities = upper_communities \/ lower_communities = << Verbs >>)
             => \A k \in 1..Len(community_ratings.val) :
                   IsOne(community_ratings.val[k])
       /\ \A k \in 1..Len(verb_pairs) :
             \A n \in 1..Len(verb_pairs[k]) :
                verb_pairs[k][n].same
                   = SameSet(lower_communities, verb_pairs[k][n].v2,
                             verb_pairs[k][n].v1)

\* a call with a lower list of two disjoint sets of lexemes has returned the
\* score 1 for an upper community of two members nested in the second set
C29_Witness ==
    /\ CoefReturned
    /\ PairwiseDisjoint(lower_communities)
    /\ Len(lower_communities) = 2
    /\ lower_communities[1] # {}
    /\ Len(upper_communities) = 1
    /\ Cardinality(upper_communities[1]) = 2
    /\ upper_communities[1] = lower_communities[2]
    /\ community_ratings.kind = "list"
    /\ Len(community_ratings.val) = 1
    /\ IsOne(community_ratings.val[1])

-----------------------------------------------------------------------------
(* scripts/05_hierarchy_analysis.py: main's loop over the data types.  For  *)
(* every data type the communities file is missing, or run_hierarchy_       *)
(* analysis returns a report, of which the Averages column is kept.         *)

\* most rows of a report
MaxRows == 2

\* the lists of data types --data-type gives
DataTypeLists ==
    { <<"original", "typefreq_shuffled", "allshuffled">>,
      <<"original">>, <<"typefreq_shuffled">>, <<"allshuffled">> }

\* the values create_hierarchy_dataframe puts in the Averages column
AverageCells ==
    { StrCell(SentinelText),
      NumCell([num |-> 0, den |-> 1]),
      NumCell([num |-> 1, den |-> 1]) }

\* there is no communities file for the data type
MissingFile == [kind |-> "missing", column |-> <<>>]

\* the Averages column of the report of a data type
Report(column) == [kind |-> "report", column |-> column]

AnalysisInputs ==
    {MissingFile} \cup { Report(c) : c \in SeqsUpTo(AverageCells, MaxRows) }

\* the column holds the sentinel
HasSentinel(column) == \E i \in 1..Len(column) : column[i].kind = "str"

\* df_hierarchy['Averages'].mean(): the column has dtype object when it holds
\* a string, and summing a float and a str, or converting the summed strings
\* to a number, raises TypeError
MeanRaises(column) == HasSentinel(column)

Step5Init ==
    /\ data_types \in DataTypeLists
    /\ analysis_of \in [Range(data_types) -> AnalysisInputs]
    /\ data_type_i = 1
    /\ written = <<>>
    /\ status = -1
    /\ pc = "s5_loop"
    /\ GraphIdle /\ TriIdle /\ CdIdle /\ CoefIdle /\ RepIdle
    /\ EqIdle /\ RerunIdle /\ PipeIdle /\ ConsIdle

Step5Frame ==
    UNCHANGED <<graphVars, triVars, cdVars, coefVars, repVars, eqVars, rerunVars, pipeVars,
                consVars>>

CurrentType == data_types[data_type_i]

\* "if not communities_file.exists(): ... continue"
SkipDataType ==
    /\ pc = "s5_loop"
    /\ data_type_i <= Len(data_types)
    /\ analysis_of[CurrentType].kind = "missing"
    /\ data_type_i' = data_type_i + 1
    /\ UNCHANGED <<pc, data_types, analysis_of, written, status>>
    /\ Step5Frame

\* run_hierarchy_analysis writes the report; the summary is logged
AnalyseDataType ==
    /\ pc = "s5_loop"
    /\ data_type_i <= Len(data_types)
    /\ analysis_of[CurrentType].kind = "report"
    /\ ~MeanRaises(analysis_of[CurrentType].column)
    /\ written' = SetItem(written, CurrentType, analysis_of[CurrentType].column)
    /\ data_type_i' = data_type_i + 1
    /\ UNCHANGED <<pc, data_types, analysis_of, status>>
    /\ Step5Frame

\* run_hierarchy_analysis writes the report; the mean raises; "except
\* Exception" logs the error and main returns 1
AnalyseDataTypeRaises ==
    /\ pc = "s5_loop"
    /\ data_type_i <= Len(data_types)
    /\ analysis_of[CurrentType].kind = "report"
    /\ MeanRaises(analysis_of[CurrentType].column)
    /\ written' = SetItem(written, CurrentType, analysis_of[CurrentType].column)
    /\ status' = 1
    /\ pc' = "s5_exited"
    /\ UNCHANGED <<data_types, analysis_of, data_type_i>>
    /\ Step5Frame

\* the loop is over: return 0
Step5Returns ==
    /\ pc = "s5_loop"
    /\ data_type_i > Len(data_types)
    /\ status' = 0
    /\ pc' = "s5_exited"
    /\ UNCHANGED <<data_types, analysis_of, data_type_i, written>>
    /\ Step5Frame

Step5Next ==
    \/ SkipDataType
    \/ AnalyseDataType
    \/ AnalyseDataTypeRaises
    \/ Step5Returns

SpecStep5 == Step5Init /\ [][Step5Next]_vars

\* the data types whose communities file exists
Analysable == { t \in Range(data_types) : analysis_of[t].kind = "report" }

(* C26 as stated: when a report holds the sentinel for at least one pair,   *)
(* the hierarchy step still ends with status 0, every requested data type   *)
(* is analysed and its report written, the sentinel unchanged in the        *)
(* Averages column.                                                         *)
C26_SentinelCompletes ==
    (pc = "s5_exited"
        /\ \E t \in Analysable : HasSentinel(analysis_of[t].column)) =>
       /\ status = 0
       /\ DOMAIN written = Analysable
       /\ \A t \in DOMAIN written : written[t] = analysis_of[t].column

-----------------------------------------------------------------------------
(* make_graphs.py: find_consecutive_sets, called on the slots of the        *)
(* formatives of one lexeme, cell and tier.                                 *)

\* most slots in one call
MaxSlots == 3

\* the slot numbers
SlotValues == {-1, 0, 1, 2}

\* list.insert into an ascending list, after the equal elements
RECURSIVE InsertSorted(_, _)
InsertSorted(x, sorted) ==
    IF sorted = <<>> THEN <<x>>
    ELSE IF x < Head(sorted) THEN <<x>> \o sorted
    ELSE <<Head(sorted)>> \o InsertSorted(x, Tail(sorted))

\* lst.sort(): the elements in ascending order
RECURSIVE SortAscending(_)
SortAscending(l) ==
    IF l = <<>> THEN <<>>
    ELSE InsertSorted(l[Len(l)], SortAscending(SubSeq(l, 1, Len(l) - 1)))

\* the test without the equality: any number that is not below the last
IsConsecutive_NotBelow(number, current_set) ==
    number >= current_set[Len(current_set)]

\* number == current_set[-1] + 1
IsConsecutive(number, current_set) ==
    number = current_set[Len(current_set)] + 1

\* "for number in lst": the sets stored and the current set after the loop
RECURSIVE ConsecutiveLoop(_, _, _)
ConsecutiveLoop(rest, consecutive_sets, current_set) ==
    IF rest = <<>>
    THEN [consecutive_sets |-> consecutive_sets, current_set |-> current_set]
    ELSE LET number == Head(rest)
         IN IF current_set = <<>>
            THEN ConsecutiveLoop(Tail(rest), consecutive_sets, <<number>>)
            ELSE IF IsConsecutive(number, current_set)
            THEN ConsecutiveLoop(Tail(rest), consecutive_sets,
                                 Append(current_set, number))
            ELSE ConsecutiveLoop(Tail(rest),
                                 Append(consecutive_sets, current_set),
                                 <<number>>)

\* the list after the call, and the value returned
find_consecutive_sets(l) ==
    LET sorted == SortAscending(l)
        after == ConsecutiveLoop(sorted, <<>>, <<>>)
    IN [lst |-> sorted,
        returned |-> IF after.current_set # <<>>
                     THEN Append(after.consecutive_sets, after.current_set)
                     ELSE after.consecutive_sets]

ConsInit ==
    /\ slots \in SeqsUpTo(SlotValues, MaxSlots)
    /\ caller_lst = slots
    /\ cons_slots = <<>>
    /\ pc = "cons_call"
    /\ GraphIdle /\ TriIdle /\ CdIdle /\ CoefIdle /\ RepIdle
    /\ EqIdle /\ RerunIdle /\ PipeIdle /\ Step5Idle

\* cons_slots = find_consecutive_sets(slots)
FindConsecutiveSets ==
    /\ pc = "cons_call"
    /\ caller_lst' = find_consecutive_sets(caller_lst).lst
    /\ cons_slots' = find_consecutive_sets(caller_lst).returned
    /\ pc' = "cons_returned"
    /\ UNCHANGED slots
    /\ UNCHANGED <<graphVars, triVars, cdVars, coefVars, repVars, eqVars, rerunVars, pipeVars,
                   step5Vars>>

ConsNext == FindConsecutiveSets

SpecConsecutive == ConsInit /\ [][ConsNext]_vars

\* the list is in ascending order
IsAscending(l) == \A i \in 1..(Len(l) - 1) : l[i] <= l[i + 1]

\* the number of times a value is in a list
CountOf(x, l) == Cardinality({ i \in 1..Len(l) : l[i] = x })

\* the list holds the same values as another, each as many times
SameElements(l1, l2) ==
    /\ Len(l1) = Len(l2)
    /\ \A i \in 1..Len(l1) : CountOf(l1[i], l1) = CountOf(l1[i], l2)

(* C30: the runs find_consecutive_sets returns, put one after the other,    *)
(* are the input in ascending order; within a run every element is the one  *)
(* before plus 1; no run is empty; the first element of a run is never the  *)
(* last element of the run before plus 1; the empty list gives no runs; and *)
(* the caller's list is left sorted.                                        *)
C30_ConsecutiveRuns ==
    pc = "cons_returned" =>
       /\ IsAscending(Flatten(cons_slots))
       /\ SameElements(Flatten(cons_slots), slots)
       /\ \A r \in 1..Len(cons_slots) :
             /\ cons_slots[r] # <<>>
             /\ \A i \in 1..(Len(cons_slots[r]) - 1) :
                   cons_slots[r][i + 1] = cons_slots[r][i] + 1
             /\ r > 1 =>
                   cons_slots[r][1] #
                      cons_slots[r - 1][Len(cons_slots[r - 1])] + 1
       /\ (slots = <<>> => cons_slots = <<>>)
       /\ caller_lst = Flatten(cons_slots)

\* the call has returned two runs, one of two slots, for a list that was
\* given out of order and is now sorted
C30_Witness ==
    /\ pc = "cons_returned"
    /\ Len(cons_slots) = 2
    /\ \E r \in 1..2 : Len(cons_slots[r]) = 2
    /\ caller_lst # slots

====
